---------------------------- MODULE Spec2Model ----------------------------
(***************************************************************************)
(* A model of the strategy-evaluation engine of the robo-advisor:          *)
(*   src/src/main.py       simulate_trading (the portfolio simulator)      *)
(*   src/src/strategy.py   the signal generators                           *)
(*   src/src/optimizer.py  Optimizer (grid search on a thread pool)        *)
(*   src/src/batch_optimizer.py  the batch driver and its parameter table  *)
(*   src/src/live_trader.py      the optimization threads and callbacks    *)
(* and of a strategy instantiated and run directly, as live_trader.py does.*)
(*                                                                         *)
(* Numbers.  The program computes in IEEE-754 binary floating point        *)
(* (numpy float64).  The model keeps the shape of that arithmetic -- a     *)
(* binary mantissa of MantBits bits, every operation rounded to nearest,   *)
(* ties to even, and the special values inf and nan -- at a reduced        *)
(* mantissa width, so that a quotient such as cash / price is rounded and  *)
(* (cash / price) * price need not give cash back.  The exponent is not    *)
(* bounded: the inputs of the model are far from overflow and underflow.   *)
(***************************************************************************)
EXTENDS Integers, Sequences, FiniteSets, TLC

(***************************************************************************)
(* Bounds of the model.                                                    *)
(***************************************************************************)
\* mantissa width of the model's floating point numbers (float64 has 53)
MantBits == 11
\* longest price / signal series
MaxLen == 3
\* worker threads of the pool
MaxWorkers == 2

(***************************************************************************)
(* Floating point.  A number is [k, m, e]: k = "fin" is m * 2^e with m odd *)
(* (or m = 0, e = 0), so that equal numbers are equal records; k = "inf"   *)
(* is +inf (m = 1) or -inf (m = -1); k = "nan" is not-a-number.            *)
(***************************************************************************)
\* Op applied to the value of x, and to the values of x and y: the
\* operands are evaluated once, before the operation, as the machine does
At1(Op(_), x) == CHOOSE r \in {Op(a) : a \in {x}} : TRUE

At2(Op(_, _), x, y) == CHOOSE r \in {Op(a, b) : a \in {x}, b \in {y}} : TRUE

\* 2^n (1 for n <= 0)
Pow2(n) == IF n <= 0 THEN 1 ELSE 2 ^ n

\* the number of bits of n
BitLen[n \in Nat] == IF n = 0 THEN 0 ELSE 1 + BitLen[n \div 2]

\* the number of trailing zero bits of n (0 for n = 0)
TrailingZeros[n \in Nat] ==
    IF n = 0 \/ n % 2 = 1 THEN 0 ELSE 1 + TrailingZeros[n \div 2]

Abs(x) == IF x < 0 THEN -x ELSE x

Sgn(x) == IF x < 0 THEN -1 ELSE IF x > 0 THEN 1 ELSE 0

FZero == [k |-> "fin", m |-> 0, e |-> 0]

FNaN == [k |-> "nan", m |-> 0, e |-> 0]

FInf(s) == [k |-> "inf", m |-> s, e |-> 0]

\* m * 2^e with the factors of two of m moved into the exponent
Normalize(m, e) ==
    LET N(mm, tz) ==
            IF mm = 0 THEN FZero
            ELSE [k |-> "fin", m |-> mm \div Pow2(tz), e |-> e + tz]
    IN  At2(N, m, TrailingZeros[Abs(m)])

\* s * (n * 2^e, plus a little more when sticky) rounded to MantBits bits,
\* to nearest, ties to even; n >= 0, s in {-1, 1}
RoundMant(s, n, e, sticky) ==
    LET Round(nn, bl) ==
            IF bl <= MantBits THEN Normalize(s * nn, e)
            ELSE LET shift == bl - MantBits
                     q     == nn \div Pow2(shift)
                     r     == nn % Pow2(shift)
                     half  == Pow2(shift - 1)
                     up    == r > half \/ (r = half /\ (sticky \/ q % 2 = 1))
                 IN  Normalize(s * (IF up THEN q + 1 ELSE q), e + shift)
    IN  At2(Round, n, BitLen[n])

\* an integer as a float
FromInt(n) == RoundMant(IF n < 0 THEN -1 ELSE 1, Abs(n), 0, FALSE)

IsFin(a) == a.k = "fin"

IsNaN(a) == a.k = "nan"

FNeg(x) == LET Neg(a) == [a EXCEPT !.m = -a.m] IN At1(Neg, x)

FMul(x, y) ==
    LET Mul(a, b) ==
            IF IsNaN(a) \/ IsNaN(b) THEN FNaN
            ELSE IF ~IsFin(a) \/ ~IsFin(b)
                 THEN IF a.m = 0 \/ b.m = 0 THEN FNaN ELSE FInf(Sgn(a.m) * Sgn(b.m))
            ELSE RoundMant(IF Sgn(a.m) * Sgn(b.m) < 0 THEN -1 ELSE 1,
                           Abs(a.m) * Abs(b.m), a.e + b.e, FALSE)
    IN  At2(Mul, x, y)

FDiv(x, y) ==
    LET Div(a, b) ==
            IF IsNaN(a) \/ IsNaN(b) THEN FNaN
            ELSE IF ~IsFin(a) THEN (IF ~IsFin(b) THEN FNaN
                                    ELSE FInf(a.m * (IF b.m < 0 THEN -1 ELSE 1)))
            ELSE IF ~IsFin(b) THEN FZero
            ELSE IF b.m = 0 THEN (IF a.m = 0 THEN FNaN ELSE FInf(Sgn(a.m)))
            ELSE IF a.m = 0 THEN FZero
            ELSE LET d == BitLen[Abs(b.m)] - BitLen[Abs(a.m)] + MantBits + 2
                     Quot(sh) ==
                         LET n == Abs(a.m) * Pow2(sh)
                         IN  RoundMant(IF Sgn(a.m) * Sgn(b.m) < 0 THEN -1 ELSE 1,
                                       n \div Abs(b.m), a.e - b.e - sh,
                                       n % Abs(b.m) # 0)
                 IN  At1(Quot, IF d > 0 THEN d ELSE 0)
    IN  At2(Div, x, y)

\* the exact integers ma, mb with a = ma * 2^e and b = mb * 2^e (a, b finite)
Aligned(a, b) ==
    LET e == IF a.m = 0 THEN b.e ELSE IF b.m = 0 THEN a.e
             ELSE IF a.e < b.e THEN a.e ELSE b.e
    IN  [e  |-> e,
         ma |-> IF a.m = 0 THEN 0 ELSE a.m * Pow2(a.e - e),
         mb |-> IF b.m = 0 THEN 0 ELSE b.m * Pow2(b.e - e)]

FAdd(x, y) ==
    LET Add(a, b) ==
            IF IsNaN(a) \/ IsNaN(b) THEN FNaN
            ELSE IF ~IsFin(a) THEN (IF ~IsFin(b) /\ a.m # b.m THEN FNaN ELSE a)
            ELSE IF ~IsFin(b) THEN b
            ELSE LET Sum(al) ==
                         LET n == al.ma + al.mb
                         IN  RoundMant(IF n < 0 THEN -1 ELSE 1, Abs(n), al.e, FALSE)
                 IN  At1(Sum, Aligned(a, b))
    IN  At2(Add, x, y)

FSub(a, b) == FAdd(a, FNeg(b))

\* the integer part of the square root of n
ISqrt[n \in Nat] ==
    IF n < 2 THEN n
    ELSE LET Pick(s) == IF (s + 1) * (s + 1) <= n THEN s + 1 ELSE s
         IN  At1(Pick, 2 * ISqrt[n \div 4])

\* sqrt(x), correctly rounded; nan for a negative number
FSqrt(x) ==
    LET Sqrt(a) ==
            IF IsNaN(a) THEN FNaN
            ELSE IF ~IsFin(a) THEN (IF a.m = 1 THEN a ELSE FNaN)
            ELSE IF a.m = 0 THEN FZero
            ELSE IF a.m < 0 THEN FNaN
            ELSE LET need == 2 * MantBits + 2 - BitLen[a.m]
                     k0   == IF need > 0 THEN need ELSE 0
                     k    == IF (a.e - k0) % 2 = 0 THEN k0 ELSE k0 + 1
                     Root(n, r) == RoundMant(1, r, (a.e - k) \div 2, r * r # n)
                     OfN(n) == At2(Root, n, ISqrt[n])
                 IN  At1(OfN, a.m * Pow2(k))
    IN  At1(Sqrt, x)

\* a > b; false when either is nan
FGt(x, y) ==
    LET Gt(a, b) ==
            IF IsNaN(a) \/ IsNaN(b) THEN FALSE
            ELSE IF ~IsFin(a) THEN a.m = 1 /\ b # a
            ELSE IF ~IsFin(b) THEN b.m = -1
            ELSE LET Greater(al) == al.ma > al.mb IN At1(Greater, Aligned(a, b))
    IN  At2(Gt, x, y)

FLt(a, b) == FGt(b, a)

FGe(x, y) ==
    LET Ge(a, b) == ~IsNaN(a) /\ ~IsNaN(b) /\ ~FGt(b, a) IN At2(Ge, x, y)

(***************************************************************************)
(* simulate_trading (main.py).  A signal frame is a sequence of rows       *)
(* [price, signal]; the row labels are the positions 0 .. n-1 (the index   *)
(* of a price series holds no duplicate label).  Prices are integer valued *)
(* floats, signals are the floats -1.0, 0.0, 1.0, written as integers.     *)
(***************************************************************************)
PriceValues == {1, 2, 3}

SignalValues == {-1, 0, 1}

InitialInvestments == {0, 1000, 10000}

\* the prices of the signal frames handed to simulate_trading directly
\* (1000 / 15 is not a binary fraction: the quotient is rounded)
SimPriceValues == {1, 3, 15}

RECURSIVE SeqsUpTo(_, _)
SeqsUpTo(S, n) ==
    IF n = 0 THEN {<<>>}
    ELSE LET shorter == SeqsUpTo(S, n - 1)
         IN  shorter \cup {Append(q, x) : q \in {r \in shorter : Len(r) = n - 1}, x \in S}

SignalRows == [price : SimPriceValues, signal : SignalValues]

\* lines 38-39: the state before the loop
SimStart(initial) == [cash |-> FromInt(initial), positions |-> FZero]

\* lines 40-43: the portfolio frame before the loop
PortfolioStart(sigs, initial) ==
    [j \in 1..Len(sigs) |->
        [holdings |-> FZero, cash |-> FromInt(initial), total |-> FromInt(initial)]]

\* SimStep with the buy computed as cash * price
SimStepBuyTimes(st, row) ==
    LET price == FromInt(row.price) IN
    IF row.signal = 1
    THEN IF FGt(st.cash, FZero)
         THEN [cash |-> FZero, positions |-> FMul(st.cash, price)]
         ELSE st
    ELSE IF row.signal = -1
    THEN IF FGt(st.positions, FZero)
         THEN [cash |-> FMul(st.positions, price), positions |-> FZero]
         ELSE st
    ELSE st

\* SimStep with a sell that leaves the shares in place
SimStepSellKeeps(st, row) ==
    LET price == FromInt(row.price) IN
    IF row.signal = 1
    THEN IF FGt(st.cash, FZero)
         THEN [cash |-> FZero, positions |-> FDiv(st.cash, price)]
         ELSE st
    ELSE IF row.signal = -1
    THEN IF FGt(st.positions, FZero)
         THEN [cash |-> FMul(st.positions, price), positions |-> st.positions]
         ELSE st
    ELSE st

\* SimStep without the guards cash > 0 and positions > 0
SimStepUnguarded(st, row) ==
    LET price == FromInt(row.price) IN
    IF row.signal = 1
    THEN [cash |-> FZero, positions |-> FDiv(st.cash, price)]
    ELSE IF row.signal = -1
    THEN [cash |-> FMul(st.positions, price), positions |-> FZero]
    ELSE st

\* lines 47-55: one pass of the loop body on (cash, positions)
SimStep(st, row) ==
    LET price == FromInt(row.price) IN
    IF row.signal = 1
    THEN IF FGt(st.cash, FZero)
         THEN [cash |-> FZero, positions |-> FDiv(st.cash, price)]
         ELSE st
    ELSE IF row.signal = -1
    THEN IF FGt(st.positions, FZero)
         THEN [cash |-> FMul(st.positions, price), positions |-> FZero]
         ELSE st
    ELSE st

\* the row with the cash alone as its total
SimRecordCashOnly(st, row) ==
    LET Record(holdings) ==
            [holdings |-> holdings, cash |-> st.cash, total |-> st.cash]
    IN  At1(Record, FMul(st.positions, FromInt(row.price)))

\* lines 57-59: the row recorded for the step
SimRecord(st, row) ==
    LET Record(holdings) ==
            [holdings |-> holdings, cash |-> st.cash, total |-> FAdd(holdings, st.cash)]
    IN  At1(Record, FMul(st.positions, FromInt(row.price)))

\* before the return there are no metrics
NoMetrics == [TotalReturn |-> FNaN, FinalValue |-> FNaN]

\* lines 62, 82: the metrics read from the completed frame.  CAGR, volatility,
\* Sharpe ratio and drawdown (lines 63-74) are further values derived from the
\* same 'total' column; they raise nothing and change no state.
SimMetrics(pf, initial) ==
    LET Metrics(final) ==
            [TotalReturn |-> FSub(FDiv(final, FromInt(initial)), FromInt(1)),
             FinalValue  |-> final]
    IN  At1(Metrics, pf[Len(pf)].total)

(***************************************************************************)
(* The signal generators (strategy.py).  The price frame `data` is a       *)
(* sequence of integer valued prices (its first column, the only one the   *)
(* strategies read); a strategy object is a record of its attributes; a    *)
(* call that raises is a result with raised = TRUE.  generate_signals      *)
(* returns the signal frame and, as `data`, the caller's price frame as    *)
(* the call leaves it.                                                     *)
(***************************************************************************)
\* the pandas build the program runs on: with copy-on-write an assignment
\* through a chained index, frame[col].iloc[k] = v, writes to a temporary
\* and leaves the frame as it was; without, it writes to the frame
VARIABLE copy_on_write

\* the defaults of MovingAverageCrossover.__init__
DefaultShortWindow == 40
DefaultLongWindow == 100
\* the defaults of RSIStrategy.__init__
DefaultRsiPeriod == 14
DefaultOverbought == 70
DefaultOversold == 30

\* a call that raised an exception of class exc
Raise(exc) == [raised |-> TRUE, exc |-> exc]

\* a keyword argument of a call f(**combo), or its default
Kwarg(combo, name, default) ==
    IF name \in DOMAIN combo THEN combo[name] ELSE default

RECURSIVE SumSeq(_, _, _)
\* s[lo] + ... + s[hi], an exact integer
SumSeq(s, lo, hi) == IF lo > hi THEN 0 ELSE s[hi] + SumSeq(s, lo, hi - 1)

\* pandas: Series.rolling(window, min_periods).mean() at the 1-based row j.
\* The sums are sums of small integers, exact in floating point; the mean
\* is one rounded division.  With fewer than min_periods rows, or none, nan.
RollingMean(s, window, min_periods, j) ==
    LET lo  == IF j - window + 1 < 1 THEN 1 ELSE j - window + 1
        cnt == j - lo + 1
    IN  IF cnt < min_periods \/ cnt <= 0 THEN FNaN
        ELSE FDiv(FromInt(SumSeq(s, lo, j)), FromInt(cnt))

\* pandas: rolling(window, min_periods) raises ValueError for a negative
\* window and for min_periods > window
RollingRaises(window, min_periods) == window < 0 \/ min_periods > window

\* a constructor that coerces short_window >= long_window to the widest
\* short window below long_window
MACConstructCoerce(combo) ==
    LET sw == Kwarg(combo, "short_window", DefaultShortWindow)
        lw == Kwarg(combo, "long_window", DefaultLongWindow)
    IN  IF ~(DOMAIN combo \subseteq {"short_window", "long_window"})
        THEN Raise("TypeError")
        ELSE [raised |-> FALSE, class |-> "MovingAverageCrossover",
              short_window |-> IF sw >= lw THEN lw - 1 ELSE sw, long_window |-> lw]

\* strategy.py 30-42: MovingAverageCrossover(**combo)
MACConstruct(combo) ==
    LET sw == Kwarg(combo, "short_window", DefaultShortWindow)
        lw == Kwarg(combo, "long_window", DefaultLongWindow)
    IN  IF ~(DOMAIN combo \subseteq {"short_window", "long_window"})
        THEN Raise("TypeError")
        ELSE IF sw >= lw THEN Raise("ValueError")
        ELSE [raised |-> FALSE, class |-> "MovingAverageCrossover",
              short_window |-> sw, long_window |-> lw]

\* the state with short_mavg >= long_mavg for short_mavg > long_mavg
MACStateGe(self, data, j) ==
    IF j - 1 >= self.short_window
       /\ FGe(RollingMean(data, self.short_window, 1, j),
              RollingMean(data, self.long_window, 1, j))
    THEN 1 ELSE 0

\* strategy.py 62-71: the 0/1 state of row j (1-based): short_mavg > long_mavg
\* from position short_window on, 0 before
MACState(self, data, j) ==
    IF j - 1 >= self.short_window
       /\ FGt(RollingMean(data, self.short_window, 1, j),
              RollingMean(data, self.long_window, 1, j))
    THEN 1 ELSE 0

\* the signal as the state itself, a held-position indicator
MACSignalLevel(self, data, j) == MACState(self, data, j)

\* strategy.py 74-81: the first difference of the state, nan -> 0 at the start
MACSignal(self, data, j) ==
    IF j = 1 THEN 0 ELSE MACState(self, data, j) - MACState(self, data, j - 1)

\* strategy.py 44-84: MovingAverageCrossover.generate_signals
MACGenerateSignals(self, data) ==
    IF RollingRaises(self.short_window, 1) \/ RollingRaises(self.long_window, 1)
    THEN [raised |-> TRUE, exc |-> "ValueError", data |-> data]
    ELSE [raised  |-> FALSE,
          signals |-> [j \in 1..Len(data) |->
                          [price |-> data[j], signal |-> MACSignal(self, data, j)]],
          data    |-> data]

\* strategy.py 114-118: RSIStrategy(**combo)
RSIConstruct(combo) ==
    IF ~(DOMAIN combo \subseteq {"rsi_period", "overbought_threshold", "oversold_threshold"})
    THEN Raise("TypeError")
    ELSE [raised |-> FALSE, class |-> "RSIStrategy",
          rsi_period |-> Kwarg(combo, "rsi_period", DefaultRsiPeriod),
          overbought_threshold |-> Kwarg(combo, "overbought_threshold", DefaultOverbought),
          oversold_threshold |-> Kwarg(combo, "oversold_threshold", DefaultOversold)]

\* strategy.py 125-127: the positive part of the price change at row j, and
\* the size of its negative part (the change of the first row is nan: 0)
Gains(data) ==
    [j \in 1..Len(data) |->
        IF j > 1 /\ data[j] - data[j - 1] > 0 THEN data[j] - data[j - 1] ELSE 0]

Losses(data) ==
    [j \in 1..Len(data) |->
        IF j > 1 /\ data[j] - data[j - 1] < 0 THEN data[j - 1] - data[j] ELSE 0]

\* the RSI with rs = gain / loss undefined (nan) for loss = 0
RSIValueUndefined(self, data, j) ==
    LET gain == RollingMean(Gains(data), self.rsi_period, self.rsi_period, j)
        loss == RollingMean(Losses(data), self.rsi_period, self.rsi_period, j)
        rs   == IF loss = FZero THEN FNaN ELSE FDiv(gain, loss)
    IN  FSub(FromInt(100), FDiv(FromInt(100), FAdd(FromInt(1), rs)))

\* strategy.py 126-130: the RSI of row j
RSIValue(self, data, j) ==
    LET gain == RollingMean(Gains(data), self.rsi_period, self.rsi_period, j)
        loss == RollingMean(Losses(data), self.rsi_period, self.rsi_period, j)
        rs   == FDiv(gain, loss)
    IN  FSub(FromInt(100), FDiv(FromInt(100), FAdd(FromInt(1), rs)))

\* the signal with the oversold assignment made last
RSISignalOversoldLast(self, data, j) ==
    LET Signal(rsi) ==
            IF FLt(rsi, FromInt(self.oversold_threshold)) THEN 1
            ELSE IF FGt(rsi, FromInt(self.overbought_threshold)) THEN -1
            ELSE 0
    IN  At1(Signal, RSIValue(self, data, j))

\* strategy.py 133-135: the signal of row j
RSISignal(self, data, j) ==
    LET Signal(rsi) ==
            IF FGt(rsi, FromInt(self.overbought_threshold)) THEN -1
            ELSE IF FLt(rsi, FromInt(self.oversold_threshold)) THEN 1
            ELSE 0
    IN  At1(Signal, RSIValue(self, data, j))

\* strategy.py 120-139: RSIStrategy.generate_signals
RSIGenerateSignals(self, data) ==
    IF RollingRaises(self.rsi_period, self.rsi_period)
    THEN [raised |-> TRUE, exc |-> "ValueError", data |-> data]
    ELSE [raised  |-> FALSE,
          signals |-> [j \in 1..Len(data) |->
                          [price |-> data[j], signal |-> RSISignal(self, data, j)]],
          data    |-> data]

\* strategy.py 91-92: BuyAndHold(**combo); the constructor takes no
\* parameter, a keyword argument is a TypeError
BuyAndHoldConstruct(combo) ==
    IF DOMAIN combo # {} THEN Raise("TypeError")
    ELSE [raised |-> FALSE, class |-> "BuyAndHold"]

\* strategy.py 94-108: BuyAndHold.generate_signals; all signals 0.0, then
\* signals['signal'].iloc[0] = 1.0, an IndexError on an empty frame
BuyAndHoldGenerateSignals(self, data) ==
    IF Len(data) = 0 THEN [raised |-> TRUE, exc |-> "IndexError", data |-> data]
    ELSE [raised  |-> FALSE,
          signals |-> [j \in 1..Len(data) |->
                          [price  |-> data[j],
                           signal |-> IF j = 1 /\ ~copy_on_write THEN 1 ELSE 0]],
          data    |-> data]

\* the defaults of BollingerBandsStrategy.__init__
DefaultWindow == 20
DefaultStdDev == 2

\* strategy.py 145-148: BollingerBandsStrategy(**combo)
BollingerConstruct(combo) ==
    IF ~(DOMAIN combo \subseteq {"window", "std_dev"}) THEN Raise("TypeError")
    ELSE [raised |-> FALSE, class |-> "BollingerBandsStrategy",
          window  |-> Kwarg(combo, "window", DefaultWindow),
          std_dev |-> Kwarg(combo, "std_dev", DefaultStdDev)]

\* the squares of the prices
Squares(data) == [j \in 1..Len(data) |-> data[j] * data[j]]

\* pandas: Series.rolling(window).std() at the 1-based row j: the sample
\* standard deviation (ddof = 1) of a full window, nan for a window that is
\* not full or holds one row.  n * sum(x^2) - sum(x)^2 is an exact integer;
\* the variance is one rounded division and the root is rounded once.
RollingStd(s, window, j) ==
    LET lo  == IF j - window + 1 < 1 THEN 1 ELSE j - window + 1
        cnt == j - lo + 1
        SumOf(sum) == cnt * SumSeq(Squares(s), lo, j) - sum * sum
    IN  IF cnt < window \/ cnt <= 1 THEN FNaN
        ELSE FSqrt(FDiv(FromInt(At1(SumOf, SumSeq(s, lo, j))),
                        FromInt(cnt * (cnt - 1))))

\* strategy.py 155-162: the signal of row j: +1 below the lower band, -1
\* above the upper band (the later assignment), 0 otherwise
BollingerSignal(self, data, j) ==
    LET Signal(middle, width) ==
            IF FGt(FromInt(data[j]), FAdd(middle, width)) THEN -1
            ELSE IF FLt(FromInt(data[j]), FSub(middle, width)) THEN 1
            ELSE 0
    IN  At2(Signal, RollingMean(data, self.window, self.window, j),
                    FMul(RollingStd(data, self.window, j), FromInt(self.std_dev)))

RECURSIVE DropRows(_, _)
\* a frame without its first n rows
DropRows(frame, n) ==
    IF n <= 0 \/ frame = <<>> THEN frame ELSE DropRows(Tail(frame), n - 1)

\* generate_signals with a dropna before the band columns are dropped: the
\* rows of the incomplete windows are lost
BollingerGenerateDropna(self, data) ==
    IF RollingRaises(self.window, self.window)
    THEN [raised |-> TRUE, exc |-> "ValueError", data |-> data]
    ELSE [raised  |-> FALSE,
          signals |-> DropRows([j \in 1..Len(data) |->
                                  [price |-> data[j], signal |-> BollingerSignal(self, data, j)]],
                               self.window - 1),
          data    |-> data]

\* strategy.py 150-166: BollingerBandsStrategy.generate_signals
BollingerGenerateSignals(self, data) ==
    IF RollingRaises(self.window, self.window)
    THEN [raised |-> TRUE, exc |-> "ValueError", data |-> data]
    ELSE [raised  |-> FALSE,
          signals |-> [j \in 1..Len(data) |->
                          [price |-> data[j], signal |-> BollingerSignal(self, data, j)]],
          data    |-> data]

\* the generate_signals of the strategy's class
GenerateSignalsOf(self, data) ==
    IF self.class = "MovingAverageCrossover" THEN MACGenerateSignals(self, data)
    ELSE IF self.class = "RSIStrategy" THEN RSIGenerateSignals(self, data)
    ELSE IF self.class = "BollingerBandsStrategy" THEN BollingerGenerateSignals(self, data)
    ELSE BuyAndHoldGenerateSignals(self, data)

\* a generate_signals that works in the caller's frame and drops its first
\* row (an in-place dropna after the diff)
GenerateSignalsInPlace(self, data) ==
    [GenerateSignalsOf(self, data) EXCEPT !.data = IF data = <<>> THEN data ELSE Tail(data)]

\* self.strategy_class(**combo)
Construct(class, combo) ==
    IF class = "MovingAverageCrossover" THEN MACConstruct(combo)
    ELSE IF class = "RSIStrategy" THEN RSIConstruct(combo)
    ELSE IF class = "BollingerBandsStrategy" THEN BollingerConstruct(combo)
    ELSE BuyAndHoldConstruct(combo)

\* strategy.generate_signals(self.data)
GenerateSignals(self, data) == GenerateSignalsOf(self, data)

RECURSIVE SimLoop(_, _, _, _)
\* main.py 45-59 run to the end: the loop from row j on, from (cash, positions)
\* st and the portfolio frame pf
SimLoop(sigs, j, st, pf) ==
    IF j > Len(sigs) THEN pf
    ELSE LET Rest(st2, pf2) == SimLoop(sigs, j + 1, st2, pf2)
             Body(st2, row) == At2(Rest, st2, [pf EXCEPT ![j] = SimRecord(st2, row)])
         IN  At2(Body, SimStep(st, sigs[j]), sigs[j])

\* main.py 25-85: simulate_trading(signals, initial_investment) as a function:
\* IndexError on an empty frame, else the metrics
SimulateTrading(sigs, initial) ==
    IF Len(sigs) = 0 THEN Raise("IndexError")
    ELSE LET Return(pf) == [raised |-> FALSE, metrics |-> SimMetrics(pf, initial)]
         IN  At1(Return, SimLoop(sigs, 1, SimStart(initial),
                                 PortfolioStart(sigs, initial)))

\* the default initial_investment of simulate_trading
DefaultInitialInvestment == 10000

(***************************************************************************)
(* Optimizer (optimizer.py).  A combination is a function from parameter   *)
(* names to values (a dict); parameter_ranges is a record of the parameter *)
(* names in key order and, per name, the values of its range.              *)
(***************************************************************************)
StrategyClasses == {"MovingAverageCrossover", "RSIStrategy", "BuyAndHold"}

\* the price series the model hands to an Optimizer
OptPriceValues == {1, 3}

\* the parameter ranges the model hands to run_optimization
ParameterRangeCases(class) ==
    IF class = "MovingAverageCrossover"
    THEN { [names |-> <<"short_window", "long_window">>, values |-> << <<1, 2>>, <<2, 3>> >>],
           [names |-> <<"short_window", "long_window">>, values |-> << <<0, 1>>, <<2>> >>],
           [names |-> <<"short_window", "long_window">>, values |-> << <<2, 3>>, <<2>> >>],
           [names |-> <<"short_window">>, values |-> << <<1, 100>> >>] }
    ELSE IF class = "RSIStrategy"
    THEN { [names |-> <<"rsi_period", "overbought_threshold", "oversold_threshold">>,
            values |-> << <<1, 2>>, <<30, 70>>, <<30>> >>],
           [names |-> <<"oversold_threshold", "rsi_period">>,
            values |-> << <<30, 80>>, <<-1, 1>> >>] }
    ELSE { [names |-> <<>>, values |-> <<>>],
           [names |-> <<"window">>, values |-> << <<1, 2>> >>] }

RECURSIVE Flatten(_)
Flatten(ss) == IF ss = <<>> THEN <<>> ELSE Head(ss) \o Flatten(Tail(ss))

RECURSIVE Product(_)
\* itertools.product(*values): the tuples in its order (the last range
\* varies fastest)
Product(values) ==
    IF values = <<>> THEN << <<>> >>
    ELSE LET rest == Product(Tail(values))
         IN  Flatten([x \in 1..Len(Head(values)) |->
                         [r \in 1..Len(rest) |-> <<Head(values)[x]>> \o rest[r]]])

\* optimizer.py 59-62: all_combinations
AllCombinations(ranges) ==
    LET tuples == Product(ranges.values)
    IN  [c \in 1..Len(tuples) |->
            [n \in {ranges.names[x] : x \in 1..Len(ranges.names)} |->
                tuples[c][CHOOSE x \in 1..Len(ranges.names) : ranges.names[x] = n]]]

\* optimizer.py 32-38 without the checks: every combination passes
CombinationValidAlways(combo) == TRUE

\* optimizer.py 32-38: the combination passes the validation
CombinationValid(combo) ==
    /\ ~ ( /\ "short_window" \in DOMAIN combo /\ "long_window" \in DOMAIN combo
           /\ combo["short_window"] >= combo["long_window"] )
    /\ ~ ( /\ "oversold_threshold" \in DOMAIN combo
           /\ "overbought_threshold" \in DOMAIN combo
           /\ combo["oversold_threshold"] >= combo["overbought_threshold"] )

\* the future of a call that returned None
ResultNone == [kind |-> "none"]

\* optimizer.py 45-47 without the try: the exception is left in the future
Propagated == [kind |-> "exception"]

\* optimizer.py 45-47: the exception is caught (and printed), None returned
Caught == ResultNone

\* optimizer.py 44: {**combo, **performance}
ResultRow(combo, metrics) ==
    [kind |-> "row", params |-> combo,
     FinalValue |-> metrics.FinalValue, TotalReturn |-> metrics.TotalReturn]

\* optimizer.py 75 as `if True:`
TruthyAlways(result) == TRUE

\* optimizer.py 75: `if result:` -- None is falsy, a non-empty dict truthy
Truthy(result) == result.kind = "row"

\* a task not yet picked up by a worker thread
NoTask == [state |-> "pending"]

\* run_optimization not called yet
NoRanges == [names |-> <<>>, values |-> <<>>]

VARIABLES
    \* simulate_trading (main.py)
    signals,             \* the signal frame: a sequence of [price, signal]
    initial_investment,  \* the starting amount (an integer)
    cash,
    positions,
    portfolio,           \* a sequence of [holdings, cash, total]
    i,                   \* the loop index (0-based, as in the code)
    performance_metrics, \* the returned metrics (nan before the return)
    sim_pc,              \* "loop" | "returned" | "raised" | "idle"
    sim_exc,             \* the class of the exception raised ("none": none)
    \* Optimizer (optimizer.py)
    strategy_class,      \* self.strategy_class
    data,                \* self.data: the shared price frame
    price_series,        \* the price series as the caller supplied it
    parameter_ranges,    \* the argument of run_optimization
    all_combinations,
    futures,             \* per combination: the state of its task / future
    results,             \* the list `results`
    completed,           \* the tasks in the order as_completed yielded them
    final_df,            \* the frame returned (empty before the return)
    constructed,         \* combinations whose strategy was constructed
    logged,              \* combinations whose evaluation printed an error
    opt_pc,              \* "init" | "pool" | "returned" | "raised" | "idle"
    \* a strategy used directly (as live_trader.py 163-164 does)
    strat_class,         \* the class that is instantiated
    params,              \* the keyword arguments of the constructor
    strategy_obj,        \* the strategy object
    price_history,       \* the price frame handed to generate_signals
    signals_df,          \* the frame generate_signals returned
    strat_exc,           \* the class of the exception raised ("none": none)
    strat_pc,            \* "new" | "constructed" | "generated" |
                         \* "raised_init" | "raised_generate" | "idle"
    \* the batch driver (batch_optimizer.py)
    tickers,             \* the ticker list read from the file
    db_rows,             \* the rows of the table optimization_results
    clock,               \* datetime.now(), in hours
    procs,               \* per ticker of the list: its pool process
    optimizer_runs,      \* <<process, strategy index>>: Optimizer was run
    db_writes,           \* <<process, strategy index>>: the row was written
    batch_pc,            \* "pool" | "complete" | "idle"
    run_results,         \* the frames run_optimization returns, per call
    \* the live tracker (live_trader.py)
    params_file,         \* optimal_params.json: key |-> parameters
    threads,             \* the optimization threads created so far
    optimization_threads,\* app_state['optimization_threads']: name |-> thread
    callbacks            \* the calls of trigger_optimization

simvars == <<signals, initial_investment, cash, positions, portfolio, i,
             performance_metrics, sim_pc, sim_exc>>

optvars == <<strategy_class, copy_on_write, data, price_series, parameter_ranges,
             all_combinations, futures, results, completed, final_df,
             constructed, logged, opt_pc>>

stratvars == <<strat_class, params, strategy_obj, price_history, signals_df,
               strat_exc, strat_pc>>

batchvars == <<tickers, db_rows, clock, procs, optimizer_runs, db_writes, batch_pc,
               run_results>>

livevars == <<params_file, threads, optimization_threads, callbacks>>

vars == <<simvars, optvars, stratvars, batchvars, livevars>>

\* an empty dict
EmptyDict == [key \in {} |-> 0]

LiveIdle ==
    /\ params_file = EmptyDict
    /\ threads = <<>>
    /\ optimization_threads = EmptyDict
    /\ callbacks = <<>>

BatchStopped ==
    /\ tickers = <<>>
    /\ db_rows = {}
    /\ clock = 0
    /\ procs = <<>>
    /\ optimizer_runs = {}
    /\ db_writes = {}
    /\ batch_pc = "idle"

BatchIdle == BatchStopped /\ run_results = {}

\* no strategy object yet
NoStrategy == [raised |-> FALSE, class |-> "none"]

StratIdle ==
    /\ strat_class = "none"
    /\ params = <<>>
    /\ strategy_obj = NoStrategy
    /\ price_history = <<>>
    /\ signals_df = <<>>
    /\ strat_exc = "none"
    /\ strat_pc = "idle"

OptStopped ==
    /\ strategy_class = "none"
    /\ data = <<>>
    /\ price_series = <<>>
    /\ parameter_ranges = NoRanges
    /\ all_combinations = <<>>
    /\ futures = <<>>
    /\ results = <<>>
    /\ completed = <<>>
    /\ final_df = <<>>
    /\ constructed = {}
    /\ logged = {}
    /\ opt_pc = "idle"

OptIdle == copy_on_write = FALSE /\ OptStopped

SimIdle ==
    /\ signals = <<>>
    /\ initial_investment = 0
    /\ cash = FZero
    /\ positions = FZero
    /\ portfolio = <<>>
    /\ i = 0
    /\ performance_metrics = NoMetrics
    /\ sim_pc = "idle"
    /\ sim_exc = "none"

\* a call simulate_trading(signals, initial_investment), up to the loop
SimInit ==
    /\ signals \in SeqsUpTo(SignalRows, MaxLen)
    /\ initial_investment \in InitialInvestments
    /\ cash = SimStart(initial_investment).cash
    /\ positions = SimStart(initial_investment).positions
    /\ portfolio = PortfolioStart(signals, initial_investment)
    /\ i = 0
    /\ performance_metrics = NoMetrics
    /\ sim_pc = "loop"
    /\ sim_exc = "none"
    /\ OptIdle
    /\ StratIdle
    /\ BatchIdle
    /\ LiveIdle

\* lines 45-59: one iteration of the loop
SimLoopStep ==
    /\ sim_pc = "loop"
    /\ i < Len(signals)
    /\ LET row == signals[i + 1]
           st  == SimStep([cash |-> cash, positions |-> positions], row)
       IN  /\ cash' = st.cash
           /\ positions' = st.positions
           /\ portfolio' = [portfolio EXCEPT ![i + 1] = SimRecord(st, row)]
    /\ i' = i + 1
    /\ UNCHANGED <<signals, initial_investment, performance_metrics, sim_pc, sim_exc>>
    /\ UNCHANGED <<optvars, stratvars, batchvars, livevars>>

\* lines 62-85 after a non-empty loop: the metrics are returned
SimReturn ==
    /\ sim_pc = "loop"
    /\ i = Len(signals)
    /\ Len(signals) > 0
    /\ performance_metrics' = SimMetrics(portfolio, initial_investment)
    /\ sim_pc' = "returned"
    /\ UNCHANGED <<signals, initial_investment, cash, positions, portfolio, i, sim_exc>>
    /\ UNCHANGED <<optvars, stratvars, batchvars, livevars>>

\* line 62 on an empty frame: portfolio['total'].iloc[-1] raises IndexError
SimRaise ==
    /\ sim_pc = "loop"
    /\ i = Len(signals)
    /\ Len(signals) = 0
    /\ sim_pc' = "raised"
    /\ sim_exc' = "IndexError"
    /\ UNCHANGED <<signals, initial_investment, cash, positions, portfolio, i,
                   performance_metrics>>
    /\ UNCHANGED <<optvars, stratvars, batchvars, livevars>>

SimNext == SimLoopStep \/ SimReturn \/ SimRaise

SimSpec == SimInit /\ [][SimNext]_vars

(***************************************************************************)
(* Optimizer.run_optimization.  The main thread submits one task per       *)
(* combination to a ThreadPoolExecutor, whose threads take the tasks in    *)
(* submission order and run _evaluate_combination; the main thread takes   *)
(* the futures from as_completed in whatever order they finish.            *)
(***************************************************************************)
Tasks == 1..Len(all_combinations)

InProgress == {t \in Tasks : futures[t].state \in {"constructed", "generated"}}

\* optimizer.py 10-19: Optimizer(strategy_class, data)
OptInit ==
    /\ SimIdle
    /\ StratIdle
    /\ BatchIdle
    /\ LiveIdle
    /\ strategy_class \in StrategyClasses
    /\ copy_on_write \in (IF strategy_class = "BuyAndHold" THEN BOOLEAN ELSE {FALSE})
    /\ price_series \in SeqsUpTo(OptPriceValues, MaxLen)
    /\ data = price_series
    /\ parameter_ranges = NoRanges
    /\ all_combinations = <<>>
    /\ futures = <<>>
    /\ results = <<>>
    /\ completed = <<>>
    /\ final_df = <<>>
    /\ constructed = {}
    /\ logged = {}
    /\ opt_pc = "init"

\* optimizer.py 59-71: the combinations are built and all submitted
OptSubmit ==
    /\ opt_pc = "init"
    /\ \E ranges \in ParameterRangeCases(strategy_class) :
          /\ parameter_ranges' = ranges
          /\ all_combinations' = AllCombinations(ranges)
          /\ futures' = [t \in 1..Len(AllCombinations(ranges)) |-> NoTask]
    /\ opt_pc' = "pool"
    /\ UNCHANGED <<strategy_class, copy_on_write,
                   data, price_series, results, completed,
                   final_df, constructed, logged>>
    /\ UNCHANGED <<simvars, stratvars, batchvars, livevars>>

\* a worker thread takes the next queued task and runs optimizer.py 32-41:
\* the validation and, for a valid combination, the constructor
WorkerConstruct(t) ==
    /\ opt_pc \in {"pool", "raised"}
    /\ futures[t].state = "pending"
    /\ \A u \in Tasks : u < t => futures[u].state # "pending"
    /\ Cardinality(InProgress) < MaxWorkers
    /\ LET combo == all_combinations[t] IN
       IF ~CombinationValid(combo)
       THEN /\ futures' = [futures EXCEPT ![t] = [state |-> "finished", result |-> ResultNone]]
            /\ UNCHANGED <<constructed, logged>>
       ELSE LET strategy == Construct(strategy_class, combo) IN
            /\ constructed' = constructed \cup {t}
            /\ IF strategy.raised
               THEN /\ futures' = [futures EXCEPT ![t] = [state |-> "finished", result |-> Caught]]
                    /\ logged' = logged \cup {t}
               ELSE /\ futures' = [futures EXCEPT ![t] = [state |-> "constructed", strategy |-> strategy]]
                    /\ UNCHANGED logged
    /\ UNCHANGED <<strategy_class, copy_on_write,
                   data, price_series, parameter_ranges,
                   all_combinations, results, completed, final_df, opt_pc>>
    /\ UNCHANGED <<simvars, stratvars, batchvars, livevars>>

\* optimizer.py 42: strategy.generate_signals(self.data)
WorkerGenerate(t) ==
    /\ futures[t].state = "constructed"
    /\ \E g \in {GenerateSignals(futures[t].strategy, data)} :
       /\ data' = g.data
       /\ IF g.raised
          THEN /\ futures' = [futures EXCEPT ![t] = [state |-> "finished", result |-> Caught]]
               /\ logged' = logged \cup {t}
          ELSE /\ futures' = [futures EXCEPT ![t] = [state |-> "generated", signals |-> g.signals]]
               /\ UNCHANGED logged
    /\ UNCHANGED <<strategy_class, copy_on_write,
                   price_series, parameter_ranges,
                   all_combinations, results, completed, final_df, constructed,
                   opt_pc>>
    /\ UNCHANGED <<simvars, stratvars, batchvars, livevars>>

\* optimizer.py 43-44: simulate_trading(signals) and the result row
WorkerSimulate(t) ==
    /\ futures[t].state = "generated"
    /\ \E r \in {SimulateTrading(futures[t].signals, DefaultInitialInvestment)} :
       IF r.raised
       THEN /\ futures' = [futures EXCEPT ![t] = [state |-> "finished", result |-> Caught]]
            /\ logged' = logged \cup {t}
       ELSE /\ futures' = [futures EXCEPT ![t] =
                   [state |-> "finished", result |-> ResultRow(all_combinations[t], r.metrics)]]
            /\ UNCHANGED logged
    /\ UNCHANGED <<strategy_class, copy_on_write,
                   data, price_series, parameter_ranges,
                   all_combinations, results, completed, final_df, constructed,
                   opt_pc>>
    /\ UNCHANGED <<simvars, stratvars, batchvars, livevars>>

\* optimizer.py 72-76: as_completed yields a finished future; its result is
\* appended when truthy (future.result() re-raises an exception of the task)
MainCollect(t) ==
    /\ opt_pc = "pool"
    /\ futures[t].state = "finished"
    /\ futures' = [futures EXCEPT ![t].state = "collected"]
    /\ completed' = Append(completed, t)
    /\ IF futures[t].result.kind = "exception"
       THEN opt_pc' = "raised" /\ UNCHANGED results
       ELSE /\ opt_pc' = opt_pc
            /\ results' = IF Truthy(futures[t].result)
                          THEN Append(results, futures[t].result) ELSE results
    /\ UNCHANGED <<strategy_class, copy_on_write,
                   data, price_series, parameter_ranges,
                   all_combinations, final_df, constructed, logged>>
    /\ UNCHANGED <<simvars, stratvars, batchvars, livevars>>

\* the loop over as_completed left after the first future
JoinedAfterFirst == \E t \in Tasks : futures[t].state = "collected"

\* the pool left as soon as no task is queued, without the join
JoinedWhenStarted ==
    \A t \in Tasks : futures[t].state \in {"collected", "constructed", "generated"}

\* optimizer.py 72-77: as_completed is exhausted and the pool shut down
Joined == \A t \in Tasks : futures[t].state = "collected"

\* optimizer.py 80-86 with the frame built from the rows in reverse
ReversedFrame(rows) == [j \in 1..Len(rows) |-> rows[Len(rows) + 1 - j]]

\* optimizer.py 80-86: an empty DataFrame, or the rows in the order of the
\* list `results` (the column order is that of the parameter names)
BuildFrame(rows) == rows

\* optimizer.py 77-86: the pool is joined and the frame returned
OptReturn ==
    /\ opt_pc = "pool"
    /\ Joined
    /\ final_df' = BuildFrame(results)
    /\ opt_pc' = "returned"
    /\ UNCHANGED <<strategy_class, copy_on_write,
                   data, price_series, parameter_ranges,
                   all_combinations, futures, results, completed, constructed,
                   logged>>
    /\ UNCHANGED <<simvars, stratvars, batchvars, livevars>>

RECURSIVE InsertRow(_, _)
\* a row put into a frame sorted by Final Value, descending, behind the rows
\* of the same value
InsertRow(sorted, row) ==
    IF sorted = <<>> THEN <<row>>
    ELSE IF FGt(row.FinalValue, Head(sorted).FinalValue) THEN <<row>> \o sorted
    ELSE <<Head(sorted)>> \o InsertRow(Tail(sorted), row)

RECURSIVE SortValues(_)
\* batch_optimizer.py 85, live_trader.py 73, optimization_dashboard.py 146:
\* the callers' results_df.sort_values(by='Final Value', ascending=False).
\* (Which of several rows of one Final Value comes first is up to pandas'
\* sort; here it is the one that was first in the frame.)
SortValues(rows) ==
    IF rows = <<>> THEN <<>>
    ELSE InsertRow(SortValues([j \in 1..Len(rows) - 1 |-> rows[j]]), rows[Len(rows)])

OptNext ==
    \/ OptSubmit
    \/ OptReturn
    \/ \E t \in Tasks : MainCollect(t)
    \/ \E t \in Tasks : WorkerConstruct(t)
    \/ \E t \in Tasks : WorkerGenerate(t)
    \/ \E t \in Tasks : WorkerSimulate(t)

Spec == OptInit /\ [][OptNext]_vars

(***************************************************************************)
(* A strategy used directly: the class is instantiated with params, then   *)
(* signals_df = strategy_obj.generate_signals(price_history), as           *)
(* live_trader.py 163-164 does.                                            *)
(***************************************************************************)
AllStrategyClasses ==
    {"MovingAverageCrossover", "RSIStrategy", "BollingerBandsStrategy", "BuyAndHold"}

\* a dict of the two keys a, b
Dict2(a, x, b, y) == [n \in {a, b} |-> IF n = a THEN x ELSE y]

\* a dict of the three keys a, b, c
Dict3(a, x, b, y, c, z) ==
    [n \in {a, b, c} |-> IF n = a THEN x ELSE IF n = b THEN y ELSE z]

\* the keyword arguments the model hands to the constructor of a class:
\* windows and periods from negative to longer than the longest series
StratParamCases(class) ==
    IF class = "MovingAverageCrossover"
    THEN {Dict2("short_window", sw, "long_window", lw) : sw \in -1..2, lw \in 1..3}
    ELSE IF class = "RSIStrategy"
    THEN {Dict3("rsi_period", p, "overbought_threshold", ob, "oversold_threshold", os) :
            p \in -1..(MaxLen + 1), ob \in {60, 100}, os \in {30, 80}}
    ELSE IF class = "BollingerBandsStrategy"
    THEN {Dict2("window", w, "std_dev", sd) : w \in -1..MaxLen, sd \in 0..2}
    ELSE {<<>>}

\* the price series of the worked scenario: five days, up and down again
ScenarioPrices == <<10, 11, 12, 11, 10>>

\* the caller has picked a class, its arguments and a price frame
StratInit ==
    /\ SimIdle
    /\ OptStopped
    /\ BatchIdle
    /\ LiveIdle
    /\ strat_class \in AllStrategyClasses
    /\ copy_on_write \in (IF strat_class = "BuyAndHold" THEN BOOLEAN ELSE {FALSE})
    /\ params \in StratParamCases(strat_class)
    /\ price_history \in SeqsUpTo(PriceValues, MaxLen) \cup {ScenarioPrices}
    /\ strategy_obj = NoStrategy
    /\ signals_df = <<>>
    /\ strat_exc = "none"
    /\ strat_pc = "new"

\* live_trader.py 163: strategy_obj = STRATEGIES[name](**params)
StratConstruct ==
    /\ strat_pc = "new"
    /\ \E obj \in {Construct(strat_class, params)} :
          /\ strategy_obj' = obj
          /\ strat_pc' = IF obj.raised THEN "raised_init" ELSE "constructed"
          /\ strat_exc' = IF obj.raised THEN obj.exc ELSE strat_exc
    /\ UNCHANGED <<strat_class, params, price_history, signals_df>>
    /\ UNCHANGED <<simvars, optvars, batchvars, livevars>>

\* live_trader.py 164: signals_df = strategy_obj.generate_signals(price_history)
StratGenerate ==
    /\ strat_pc = "constructed"
    /\ \E g \in {GenerateSignals(strategy_obj, price_history)} :
          /\ price_history' = g.data
          /\ signals_df' = IF g.raised THEN signals_df ELSE g.signals
          /\ strat_pc' = IF g.raised THEN "raised_generate" ELSE "generated"
          /\ strat_exc' = IF g.raised THEN g.exc ELSE strat_exc
    /\ UNCHANGED <<strat_class, params, strategy_obj>>
    /\ UNCHANGED <<simvars, optvars, batchvars, livevars>>

\* main.py 115: simulate_trading(signals, initial_investment) is called with
\* the frame generate_signals returned; the call then runs as SimNext says
StratSimulate ==
    /\ strat_pc = "generated"
    /\ sim_pc = "idle"
    /\ signals' = signals_df
    /\ \E initial \in InitialInvestments :
          /\ initial_investment' = initial
          /\ cash' = SimStart(initial).cash
          /\ positions' = SimStart(initial).positions
          /\ portfolio' = PortfolioStart(signals_df, initial)
    /\ i' = 0
    /\ sim_pc' = "loop"
    /\ UNCHANGED <<performance_metrics, sim_exc>>
    /\ UNCHANGED <<optvars, stratvars, batchvars, livevars>>

StratNext == StratConstruct \/ StratGenerate \/ StratSimulate \/ SimNext

StratSpec == StratInit /\ [][StratNext]_vars

(***************************************************************************)
(* The batch driver, batch_optimizer.py: a process pool runs               *)
(* run_optimization_for_ticker once per line of the ticker file; each      *)
(* process walks the strategies and stores the best parameters in the      *)
(* table optimization_results, whose primary key is                        *)
(* (ticker, strategy_name).  Time is counted in hours.                     *)
(***************************************************************************)

\* batch_optimizer.py 13-17: the names of STRATEGIES, in the dict's order
BatchStrategyNames ==
    <<"Moving Average Crossover", "RSI Strategy", "Bollinger Bands Strategy">>

\* batch_optimizer.py 13-17: the class registered under a name
BatchStrategyClass(name) ==
    IF name = "Moving Average Crossover" THEN "MovingAverageCrossover"
    ELSE IF name = "RSI Strategy" THEN "RSIStrategy"
    ELSE "BollingerBandsStrategy"

OPTIMIZATION_TIME_DELTA_HOURS == 24

MAX_WORKERS == 10

\* how many hours pass, at most, while a batch runs
MaxTicks == 1

\* the classmethod get_parameter_info() of a strategy class, which the
\* drivers call (batch_optimizer.py 78, live_trader.py 66) and strategy.py
\* does not define: per parameter a 'range' (start, end, step).  What it
\* returns is not known; it is one of these descriptions, all within the
\* domains the constructors accept or reject.
ParameterInfoCases(class) ==
    IF class = "MovingAverageCrossover"
    THEN { [names |-> <<"short_window", "long_window">>,
            range |-> << <<1, 2, 1>>, <<2, 3, 1>> >>],
           [names |-> <<"short_window", "long_window">>,
            range |-> << <<2, 3, 1>>, <<2, 2, 1>> >>] }
    ELSE IF class = "RSIStrategy"
    THEN { [names |-> <<"rsi_period", "overbought_threshold", "oversold_threshold">>,
            range |-> << <<1, 2, 1>>, <<70, 70, 5>>, <<30, 30, 5>> >>] }
    ELSE { [names |-> <<"window", "std_dev">>,
            range |-> << <<2, 3, 1>>, <<1, 1, 1>> >>] }

\* range(start, end + 1, step) as a list, for a positive step
RangeList(start, end, step) ==
    [j \in 1..(IF end < start THEN 0 ELSE (end - start) \div step + 1) |->
        start + (j - 1) * step]

\* batch_optimizer.py 79: param_ranges
ParamRanges(info) ==
    [names |-> info.names,
     values |-> [x \in 1..Len(info.range) |->
                    RangeList(info.range[x][1], info.range[x][2], info.range[x][3])]]

\* strategy.generate_signals(self.data) for the classes registered in
\* STRATEGIES (batch_optimizer.py 13-17)
RegisteredGenerateSignals(self, series) ==
    IF self.class = "MovingAverageCrossover" THEN MACGenerateSignals(self, series)
    ELSE IF self.class = "RSIStrategy" THEN RSIGenerateSignals(self, series)
    ELSE BollingerGenerateSignals(self, series)

\* optimizer.py 21-47: _evaluate_combination, the result of one call, for a
\* registered class
EvaluateCombination(class, combo, series) ==
    IF ~CombinationValid(combo) THEN ResultNone
    ELSE LET OfRun(r) ==
                 IF r.raised THEN Caught ELSE ResultRow(combo, r.metrics)
             OfSignals(g) ==
                 IF g.raised THEN Caught
                 ELSE At1(OfRun, SimulateTrading(g.signals, DefaultInitialInvestment))
             OfStrategy(strategy) ==
                 IF strategy.raised THEN Caught
                 ELSE At1(OfSignals, RegisteredGenerateSignals(strategy, series))
         IN  At1(OfStrategy, Construct(class, combo))

\* optimizer.py 49-86: the rows of the frame run_optimization returns (their
\* order, that of the tasks' completion, is left out: the drivers sort them)
RunOptimization(class, series, ranges) ==
    LET Evaluate(combo) == EvaluateCombination(class, combo, series)
        OfAll(all) == {r \in {At1(Evaluate, all[c]) : c \in 1..Len(all)} : Truthy(r)}
    IN  At1(OfAll, AllCombinations(ranges))

\* batch_optimizer.py 85: the rows sort_values(by='Final Value',
\* ascending=False) may put first.  The sort is not a stable one, so among
\* rows of one Final Value any may come first.
BestRows(rows) ==
    {r \in rows : \A q \in rows : ~FGt(q.FinalValue, r.FinalValue)}

\* int(x) of a float: the value truncated toward zero
IntOf(x) ==
    IF x.e >= 0 THEN x.m * Pow2(x.e)
    ELSE Sgn(x.m) * (Abs(x.m) \div Pow2(-x.e))

\* batch_optimizer.py 85-87: the row as a dict of floats (to_dict of a row of
\* int and float columns) and its parameters converted back with int()
OptimalParams(best) == [n \in DOMAIN best.params |-> IntOf(FromInt(best.params[n]))]

\* batch_optimizer.py 30-34: get_last_update_time, the rows fetchone() sees
LastUpdateRows(rows, ticker, strategy_name) ==
    {r \in rows : r.ticker = ticker /\ r.strategy_name = strategy_name}

\* batch_optimizer.py 73 with <= for <
IsFreshInclusive(last_update, now) == now - last_update <= OPTIMIZATION_TIME_DELTA_HOURS

\* batch_optimizer.py 73: (datetime.now() - last_update) < timedelta(hours=...)
IsFresh(last_update, now) == now - last_update < OPTIMIZATION_TIME_DELTA_HOURS

\* batch_optimizer.py 65 as `if False:`
DataEmptyNever(historical_data) == FALSE

\* batch_optimizer.py 65: historical_data.empty
DataEmpty(historical_data) == historical_data = <<>>

\* batch_optimizer.py 41-47 as a plain INSERT that keeps the old row
InsertOnly(rows, ticker, strategy_name, parameters, timestamp) ==
    rows \cup {[ticker |-> ticker, strategy_name |-> strategy_name,
                parameters |-> parameters, last_updated |-> timestamp]}

\* batch_optimizer.py 41-47: INSERT ... ON CONFLICT(ticker, strategy_name)
\* DO UPDATE SET parameters, last_updated
Upsert(rows, ticker, strategy_name, parameters, timestamp) ==
    {r \in rows : ~(r.ticker = ticker /\ r.strategy_name = strategy_name)}
    \cup {[ticker |-> ticker, strategy_name |-> strategy_name,
           parameters |-> parameters, last_updated |-> timestamp]}

\* the ticker files of the model (get_tickers_from_file keeps repeated lines)
TickerLists == {<<"AAA">>, <<"AAA", "BBB">>, <<"AAA", "AAA">>}

\* what the price provider returns for a ticker: the Close prices, or an
\* empty frame (data_handler.py 18-38)
ProviderCases == {<<>>, <<3, 1, 3, 1>>}

\* rows the table may hold when the batch starts
StoredRows ==
    { [ticker |-> "AAA", strategy_name |-> "Moving Average Crossover",
       parameters |-> Dict2("short_window", 5, "long_window", 9), last_updated |-> 0],
      [ticker |-> "AAA", strategy_name |-> "RSI Strategy",
       parameters |-> Dict3("rsi_period", 9, "overbought_threshold", 70,
                            "oversold_threshold", 30), last_updated |-> 1] }

\* the calls Optimizer(class, data).run_optimization(param_ranges) of the
\* model: a registered class, a series of the provider and a range
\* description of the class
OptimizerInputs ==
    UNION {{<<BatchStrategyClass(BatchStrategyNames[k]), series, info>> :
               series \in ProviderCases,
               info \in ParameterInfoCases(BatchStrategyClass(BatchStrategyNames[k]))} :
           k \in 1..Len(BatchStrategyNames)}

\* optimizer.py 49-86: the frame of each of these calls; run_optimization is
\* a pure function of the call, and run_results holds this table
OptimizerResults ==
    {[call |-> x, rows |-> RunOptimization(x[1], x[2], ParamRanges(x[3]))] :
        x \in OptimizerInputs}

\* batch_optimizer.py 81-82: Optimizer(...).run_optimization(param_ranges)
ResultsOf(class, series, info) ==
    (CHOOSE t \in run_results : t.call = <<class, series, info>>).rows

\* a submitted task no pool process has picked up
QueuedProcess ==
    [pc |-> "queued", historical_data |-> <<>>, k |-> 1, results_df |-> {},
     result |-> "none"]

Processes == DOMAIN procs

Running == {p \in Processes : procs[p].pc \in {"check", "write"}}

\* batch_optimizer.py 94-105: the tickers are read and one task per ticker
\* is submitted
BatchInit ==
    /\ SimIdle
    /\ OptIdle
    /\ StratIdle
    /\ LiveIdle
    /\ tickers \in TickerLists
    /\ db_rows \in SUBSET StoredRows
    /\ clock = OPTIMIZATION_TIME_DELTA_HOURS
    /\ procs = [p \in DOMAIN tickers |-> QueuedProcess]
    /\ optimizer_runs = {}
    /\ db_writes = {}
    /\ batch_pc = "pool"
    /\ run_results = OptimizerResults

\* batch_optimizer.py 70, 91-92: the loop goes on to the strategy after
\* k, or is over and the function returns
NextStrategy(proc) ==
    IF proc.k < Len(BatchStrategyNames)
    THEN [proc EXCEPT !.pc = "check", !.k = @ + 1, !.results_df = {}]
    ELSE [proc EXCEPT !.pc = "done", !.k = @ + 1, !.results_df = {},
                      !.result = "Successfully processed"]

\* batch_optimizer.py 57-68: a pool process takes the task, fetches the data
\* and returns at once when there is none
BatchFetch(p) ==
    /\ batch_pc = "pool"
    /\ procs[p].pc = "queued"
    /\ Cardinality(Running) < MAX_WORKERS
    /\ \E historical_data \in ProviderCases :
          procs' = [procs EXCEPT ![p] =
                       IF DataEmpty(historical_data)
                       THEN [@ EXCEPT !.pc = "done", !.result = "Failed to fetch data"]
                       ELSE [@ EXCEPT !.pc = "check",
                                      !.historical_data = historical_data]]
    /\ UNCHANGED <<run_results, tickers, db_rows, clock, optimizer_runs, db_writes, batch_pc>>
    /\ UNCHANGED <<simvars, optvars, stratvars, livevars>>

\* batch_optimizer.py 71-84: the strategy's row is looked up; a fresh one
\* skips the strategy, otherwise the Optimizer is run, and an empty result
\* moves on to the next strategy
BatchCheck(p) ==
    /\ procs[p].pc = "check"
    /\ LET strategy_name == BatchStrategyNames[procs[p].k]
           last == LastUpdateRows(db_rows, tickers[p], strategy_name)
       IN  IF \E r \in last : IsFresh(r.last_updated, clock)
           THEN /\ procs' = [procs EXCEPT ![p] = NextStrategy(@)]
                /\ UNCHANGED optimizer_runs
           ELSE /\ \E info \in ParameterInfoCases(BatchStrategyClass(strategy_name)) :
                   \E results_df \in {ResultsOf(BatchStrategyClass(strategy_name),
                                               procs[p].historical_data, info)} :
                      procs' = [procs EXCEPT ![p] =
                                   IF results_df = {} THEN NextStrategy(@)
                                   ELSE [@ EXCEPT !.pc = "write",
                                                  !.results_df = results_df]]
                /\ optimizer_runs' = optimizer_runs \cup {<<p, procs[p].k>>}
    /\ UNCHANGED <<run_results, tickers, db_rows, clock, db_writes, batch_pc>>
    /\ UNCHANGED <<simvars, optvars, stratvars, livevars>>

\* batch_optimizer.py 85-89: the best row is taken and written with the
\* time of the write
BatchWrite(p) ==
    /\ procs[p].pc = "write"
    /\ \E best \in BestRows(procs[p].results_df) :
          db_rows' = Upsert(db_rows, tickers[p], BatchStrategyNames[procs[p].k],
                            OptimalParams(best), clock)
    /\ db_writes' = db_writes \cup {<<p, procs[p].k>>}
    /\ procs' = [procs EXCEPT ![p] = NextStrategy(@)]
    /\ UNCHANGED <<run_results, tickers, clock, optimizer_runs, batch_pc>>
    /\ UNCHANGED <<simvars, optvars, stratvars, livevars>>

\* batch_optimizer.py 108-116: as_completed hands over a finished future and
\* its result is printed; after the last one the batch is complete
BatchCollect(p) ==
    /\ batch_pc = "pool"
    /\ procs[p].pc = "done"
    /\ procs' = [procs EXCEPT ![p] = [@ EXCEPT !.pc = "collected"]]
    /\ batch_pc' = IF \A q \in Processes \ {p} : procs[q].pc = "collected"
                   THEN "complete" ELSE "pool"
    /\ UNCHANGED <<run_results, tickers, db_rows, clock, optimizer_runs, db_writes>>
    /\ UNCHANGED <<simvars, optvars, stratvars, livevars>>

\* an hour passes
Tick ==
    /\ batch_pc = "pool"
    /\ clock < OPTIMIZATION_TIME_DELTA_HOURS + MaxTicks
    /\ clock' = clock + 1
    /\ UNCHANGED <<run_results, tickers, db_rows, procs, optimizer_runs, db_writes, batch_pc>>
    /\ UNCHANGED <<simvars, optvars, stratvars, livevars>>

BatchStep ==
    \/ \E p \in Processes : BatchFetch(p)
    \/ \E p \in Processes : BatchCheck(p)
    \/ \E p \in Processes : BatchWrite(p)
    \/ \E p \in Processes : BatchCollect(p)

BatchNext == BatchStep \/ Tick

BatchSpec == BatchInit /\ [][BatchNext]_vars

\* every pool process and the main process keep running
BatchFairSpec == BatchSpec /\ WF_vars(BatchStep)

(***************************************************************************)
(* The live tracker, live_trader.py: at startup one optimization thread    *)
(* per strategy is created for 'SPY'; the server then runs                 *)
(* trigger_optimization callbacks, each in a thread of its own, which      *)
(* start further optimization threads.  Every optimization thread loads    *)
(* the parameter file, sets its key and saves the file.  The write of the  *)
(* file is taken as one step.                                              *)
(***************************************************************************)

\* how many trigger_optimization callbacks the server runs
MaxCallbacks == 2

\* how many optimization threads are created, those of the startup included
MaxThreads == 5

\* live_trader.py 17-21: the names of STRATEGIES, in the dict's order
LiveStrategyNames == BatchStrategyNames

\* live_trader.py 17-21: the class registered under a name
LiveStrategyClass(name) == BatchStrategyClass(name)

\* the values of the ticker input of the page
TickerInputs == {"", "spy"}

\* str.upper() of a ticker of the model
Upper(ticker) == IF ticker = "spy" THEN "SPY" ELSE ticker

\* live_trader.py 78: key = f"{ticker.upper()}_{strategy_name}"
ParamsKey(ticker, strategy_name) == <<Upper(ticker), strategy_name>>

\* live_trader.py 79: all_saved_params[key] = optimal
SetItem(dict, key, value) ==
    [x \in DOMAIN dict \cup {key} |-> IF x = key THEN value ELSE dict[x]]

\* live_trader.py 199, 210: threading.Thread(target=optimize_single_strategy,
\* args=(ticker, name, strategy_class)), not started
NewThread(ticker, name) ==
    [name |-> name, ticker |-> ticker, pc |-> "created",
     optimal |-> EmptyDict, all_saved_params |-> EmptyDict]

\* Thread.is_alive(): started and not yet returned
IsAlive(thread) == thread.pc \in {"running", "save"}

\* live_trader.py 196, 203-205: the loop goes on to the strategy after k, or
\* the callback returns
NextName(callback) ==
    IF callback.k < Len(LiveStrategyNames)
    THEN [callback EXCEPT !.pc = "check", !.k = @ + 1]
    ELSE [callback EXCEPT !.pc = "returned"]

\* live_trader.py 208-215: the three threads of the startup are registered
\* and started, and the server runs
LiveInit ==
    /\ SimIdle
    /\ OptIdle
    /\ StratIdle
    /\ BatchStopped
    /\ run_results = OptimizerResults
    /\ params_file = EmptyDict
    /\ threads = [t \in DOMAIN LiveStrategyNames |->
                     [NewThread("SPY", LiveStrategyNames[t]) EXCEPT !.pc = "running"]]
    /\ optimization_threads =
          [name \in {LiveStrategyNames[t] : t \in DOMAIN LiveStrategyNames} |->
              CHOOSE t \in DOMAIN LiveStrategyNames : LiveStrategyNames[t] = name]
    /\ callbacks = <<>>

\* live_trader.py 55-77: the thread fetches the data and runs the Optimizer;
\* without data, or with an empty result, it returns without saving, else
\* it takes the best row and loads the file: all_saved_params =
\* load_optimal_params()
ThreadOptimize(t) ==
    /\ threads[t].pc = "running"
    /\ \E historical_data \in ProviderCases :
          IF DataEmpty(historical_data)
          THEN threads' = [threads EXCEPT ![t].pc = "returned"]
          ELSE \E info \in ParameterInfoCases(LiveStrategyClass(threads[t].name)) :
               \E results_df \in {ResultsOf(LiveStrategyClass(threads[t].name),
                                            historical_data, info)} :
                  IF results_df = {}
                  THEN threads' = [threads EXCEPT ![t].pc = "returned"]
                  ELSE \E best \in BestRows(results_df) :
                          threads' = [threads EXCEPT ![t].pc = "save",
                                                     ![t].optimal = OptimalParams(best),
                                                     ![t].all_saved_params = params_file]
    /\ UNCHANGED <<params_file, optimization_threads, callbacks>>
    /\ UNCHANGED <<simvars, optvars, stratvars, batchvars>>

\* live_trader.py 78-82, 46-51: the key is set in the thread's copy and the
\* copy is written to the file, under a lock made for this call alone
ThreadSave(t) ==
    /\ threads[t].pc = "save"
    /\ params_file' = SetItem(threads[t].all_saved_params,
                              ParamsKey(threads[t].ticker, threads[t].name),
                              threads[t].optimal)
    /\ threads' = [threads EXCEPT ![t].pc = "saved",
                                  ![t].optimal = EmptyDict,
                                  ![t].all_saved_params = EmptyDict]
    /\ UNCHANGED <<optimization_threads, callbacks>>
    /\ UNCHANGED <<simvars, optvars, stratvars, batchvars>>

\* live_trader.py 191-193: the server calls trigger_optimization in a thread
\* of its own; without a ticker it returns at once
CallbackEnter ==
    /\ Len(callbacks) < MaxCallbacks
    /\ \E ticker \in TickerInputs :
          callbacks' = Append(callbacks,
                              [pc |-> IF ticker = "" THEN "returned" ELSE "check",
                               ticker |-> ticker, k |-> 1])
    /\ UNCHANGED <<params_file, threads, optimization_threads>>
    /\ UNCHANGED <<simvars, optvars, stratvars, batchvars>>

\* live_trader.py 197-198, 203: the registered thread of the name is looked
\* up and tested
CallbackCheck(c) ==
    /\ callbacks[c].pc = "check"
    /\ LET name == LiveStrategyNames[callbacks[c].k]
       IN  callbacks' = [callbacks EXCEPT ![c] =
                            IF \/ name \notin DOMAIN optimization_threads
                               \/ ~IsAlive(threads[optimization_threads[name]])
                            THEN [@ EXCEPT !.pc = "create"]
                            ELSE NextName(@)]
    /\ UNCHANGED <<params_file, threads, optimization_threads>>
    /\ UNCHANGED <<simvars, optvars, stratvars, batchvars>>

\* live_trader.py 199-201: a new thread is created, registered and started
CallbackStart(c) ==
    /\ callbacks[c].pc = "create"
    /\ Len(threads) < MaxThreads
    /\ LET name == LiveStrategyNames[callbacks[c].k]
       IN  /\ threads' = Append(threads,
                                [NewThread(Upper(callbacks[c].ticker), name)
                                    EXCEPT !.pc = "running"])
           /\ optimization_threads' = SetItem(optimization_threads, name, Len(threads) + 1)
    /\ callbacks' = [callbacks EXCEPT ![c] = NextName(@)]
    /\ UNCHANGED params_file
    /\ UNCHANGED <<simvars, optvars, stratvars, batchvars>>

LiveNext ==
    \/ CallbackEnter
    \/ \E c \in DOMAIN callbacks : CallbackCheck(c)
    \/ \E c \in DOMAIN callbacks : CallbackStart(c)
    \/ \E t \in DOMAIN threads : ThreadOptimize(t)
    \/ \E t \in DOMAIN threads : ThreadSave(t)

LiveSpec == LiveInit /\ [][LiveNext]_vars


(***************************************************************************)
(* Claims about simulate_trading, checked under SimSpec.                   *)
(***************************************************************************)
\* the step of the loop that is being taken: the row it reads
StepRow == signals[i + 1]

\* C1: every iteration of the loop takes the next row in index order and
\* applies exactly: signal = +1 and cash > 0: position := cash / price,
\* cash := 0; else signal = -1 and position > 0: cash := position * price,
\* position := 0; otherwise both unchanged; and then records
\* holdings = position * price, cash, total = holdings + cash in that row
\* (the other rows of the portfolio are left as they were).
C1_Transition ==
    [][i' # i =>
        LET price == FromInt(StepRow.price) IN
        /\ i' = i + 1
        /\ i < Len(signals)
        /\ IF StepRow.signal = 1 /\ FGt(cash, FZero)
           THEN positions' = FDiv(cash, price) /\ cash' = FZero
           ELSE IF StepRow.signal = -1 /\ FGt(positions, FZero)
           THEN cash' = FMul(positions, price) /\ positions' = FZero
           ELSE cash' = cash /\ positions' = positions
        /\ portfolio'[i + 1].holdings = FMul(positions', price)
        /\ portfolio'[i + 1].cash = cash'
        /\ portfolio'[i + 1].total = FAdd(FMul(positions', price), cash')
        /\ \A j \in 1..Len(signals) : j # i + 1 => portfolio'[j] = portfolio[j]
    ]_vars

\* C1 witness: a buy at one price followed by a sell at another has run
C1_Witness ==
    /\ i >= 2
    /\ signals[1].signal = 1 /\ signals[2].signal = -1
    /\ signals[1].price # signals[2].price
    /\ initial_investment > 0
    /\ portfolio[2].cash =
          FMul(FDiv(FromInt(initial_investment), FromInt(signals[1].price)),
               FromInt(signals[2].price))
    /\ portfolio[2].cash # FromInt(initial_investment)

\* whether the step being taken executes a buy or a sell
StepExecutes ==
    \/ StepRow.signal = 1 /\ FGt(cash, FZero)
    \/ StepRow.signal = -1 /\ FGt(positions, FZero)

\* C2: with positive prices and a non-negative initial amount, the row
\* recorded by every step has cash >= 0, holdings >= 0 and
\* total = cash + holdings, and the row of a step that executed a buy or a
\* sell has at most one of cash and holdings nonzero.
C2_PortfolioInvariant ==
    [][i' # i =>
        LET rec == portfolio'[i + 1] IN
        /\ FGe(rec.cash, FZero)
        /\ FGe(rec.holdings, FZero)
        /\ rec.total = FAdd(rec.cash, rec.holdings)
        /\ StepExecutes => (rec.cash = FZero \/ rec.holdings = FZero)
    ]_vars

\* C2 witness: a buy was recorded (no cash, holdings) and later a sell (cash,
\* no holdings)
C2_Witness ==
    /\ i = 3
    /\ portfolio[1].cash = FZero /\ FGt(portfolio[1].holdings, FZero)
    /\ FGt(portfolio[2].holdings, FZero)
    /\ FGt(portfolio[3].cash, FZero) /\ portfolio[3].holdings = FZero

\* C3: a +1 signal arriving while cash is 0 leaves positions and cash as
\* they are, and so does a -1 signal arriving while positions is 0.
C3_RepeatedSignalNoOp ==
    [][i' # i =>
        /\ (StepRow.signal = 1 /\ cash = FZero) =>
               (positions' = positions /\ cash' = cash)
        /\ (StepRow.signal = -1 /\ positions = FZero) =>
               (positions' = positions /\ cash' = cash)
    ]_vars

\* C3 witness: a second consecutive +1 has been processed while fully
\* invested, and the shares bought by the first are still held
C3_Witness ==
    /\ i >= 2
    /\ signals[1].signal = 1 /\ signals[2].signal = 1
    /\ initial_investment > 0
    /\ cash = FZero
    /\ positions = FDiv(FromInt(initial_investment), FromInt(signals[1].price))
    /\ FGt(positions, FZero)

RECURSIVE StateAfter(_)
\* cash and positions as the loop carries them out of step j (1-based; 0:
\* the state before the loop)
StateAfter(j) ==
    IF j = 0 THEN SimStart(initial_investment)
    ELSE At2(SimStep, StateAfter(j - 1), signals[j])

\* C27 as stated: the total recorded at every step equals
\* position_before * price + cash_before, with the position and cash
\* carried into the step, whether or not the step trades.
C27_Original ==
    sim_pc \in {"loop", "returned"}
    => \A j \in 1..i :
          \A before \in {StateAfter(j - 1)} :
             portfolio[j].total
                = FAdd(FMul(before.positions, FromInt(signals[j].price)), before.cash)

\* |a - b| <= |b| * 2^(2 - MantBits): a is b up to two roundings
WithinRounding(a, b) ==
    /\ IsFin(a) /\ IsFin(b)
    /\ LET Close(al) == Abs(al.ma - al.mb) * Pow2(MantBits - 2) <= Abs(al.mb)
       IN  At1(Close, Aligned(a, b))

\* C27: at every step at which no buy executes the recorded total equals
\* position_before * price + cash_before; at a step at which a buy executes
\* it is (cash_before / price) * price, which is cash_before up to the
\* rounding of the quotient and of the product; and the total stays the
\* same across the steps at which the position is 0 before and after.
C27_ValueNeutral ==
    sim_pc \in {"loop", "returned"}
    => \A j \in 1..i :
          \A before \in {StateAfter(j - 1)} :
             \A price \in {FromInt(signals[j].price)} :
                /\ IF signals[j].signal = 1 /\ FGt(before.cash, FZero)
                   THEN /\ portfolio[j].total
                             = FAdd(FMul(FDiv(before.cash, price), price), FZero)
                        /\ WithinRounding(portfolio[j].total,
                                          FAdd(FMul(before.positions, price), before.cash))
                   ELSE portfolio[j].total
                           = FAdd(FMul(before.positions, price), before.cash)
                /\ (before.positions = FZero /\ StateAfter(j).positions = FZero)
                   => portfolio[j].total = before.cash

\* a buy whose total is not the cash that went in, and a later step that
\* keeps the position
C27_Witness ==
    /\ i >= 2
    /\ signals[1].signal = 1
    /\ initial_investment > 0
    /\ portfolio[1].total # FromInt(initial_investment)
    /\ signals[2].signal = 0

(***************************************************************************)
(* Claims about Optimizer.run_optimization, checked under Spec (C9 under   *)
(* FairSpec).                                                              *)
(***************************************************************************)
\* the threads of the pool are scheduled and the main thread runs on: a step
\* that stays possible is eventually taken
FairSpec == Spec /\ WF_vars(OptNext)

\* what the evaluation of one combination on a price series comes to, read
\* off the validity rules, the constructor, generate_signals and
\* simulate_trading alone: "invalid", "raises", or the row
Evaluation(class, combo, series) ==
    IF \/ ( /\ "short_window" \in DOMAIN combo /\ "long_window" \in DOMAIN combo
            /\ combo["short_window"] >= combo["long_window"] )
       \/ ( /\ "oversold_threshold" \in DOMAIN combo
            /\ "overbought_threshold" \in DOMAIN combo
            /\ combo["oversold_threshold"] >= combo["overbought_threshold"] )
    THEN [kind |-> "invalid"]
    ELSE LET OfRun(r) ==
                 IF r.raised THEN [kind |-> "raises"]
                 ELSE [kind |-> "row", params |-> combo,
                       FinalValue |-> r.metrics.FinalValue,
                       TotalReturn |-> r.metrics.TotalReturn]
             OfSignals(g) ==
                 IF g.raised THEN [kind |-> "raises"]
                 ELSE At1(OfRun, SimulateTrading(g.signals, DefaultInitialInvestment))
             OfStrategy(strategy) ==
                 IF strategy.raised THEN [kind |-> "raises"]
                 ELSE At1(OfSignals, GenerateSignals(strategy, series))
         IN  At1(OfStrategy, Construct(class, combo))

Expected(t) == Evaluation(strategy_class, all_combinations[t], price_series)

Returned == opt_pc = "returned"

\* the rows of a frame are ordered by Final Value, non-increasing
NonIncreasing(frame) ==
    \A j \in 1..Len(frame) - 1 : FGe(frame[j].FinalValue, frame[j + 1].FinalValue)

\* the rows of the tasks in `order` that produced a row
RECURSIVE RowsInOrder(_)
RowsInOrder(order) ==
    IF order = <<>> THEN <<>>
    ELSE LET Row(e) == IF e.kind = "row" THEN <<e>> ELSE <<>>
         IN  At1(Row, Expected(Head(order))) \o RowsInOrder(Tail(order))

\* C4 (as claimed): the returned result is ordered by final value,
\* non-increasing, whatever order the evaluations completed in.
C4_Original == Returned => NonIncreasing(final_df)

\* C4 (amended): the returned result holds the rows in the order in which
\* the evaluations completed (the order as_completed yielded them), not
\* sorted; ordered by final value, non-increasing, is the frame each caller
\* makes of it with sort_values(by='Final Value', ascending=False).
C4_CompletionOrder ==
    Returned => /\ final_df = RowsInOrder(completed)
                /\ NonIncreasing(SortValues(final_df))
                /\ Len(SortValues(final_df)) = Len(final_df)

\* C4 witness: a result returned with a row of greater final value behind
\* one of smaller, the evaluations having completed out of submission order
C4_Witness ==
    /\ Returned
    /\ \E j \in 1..Len(final_df) - 1 :
          FGt(final_df[j + 1].FinalValue, final_df[j].FinalValue)
    /\ \E a, b \in 1..Len(completed) : a < b /\ completed[a] > completed[b]

\* the values of a row's parameters, in the order of the parameter names
ParamValues(row) ==
    [x \in 1..Len(parameter_ranges.names) |-> row.params[parameter_ranges.names[x]]]

RECURSIVE LexLess(_, _)
LexLess(u, v) ==
    IF u = <<>> \/ v = <<>> THEN FALSE
    ELSE Head(u) < Head(v) \/ (Head(u) = Head(v) /\ LexLess(Tail(u), Tail(v)))

\* C5 (as claimed): the row order is the same for every interleaving: by
\* final value descending, rows of equal final value lexicographically by
\* parameter values (every row has the same parameter names).
C5_Original ==
    Returned =>
        \A j \in 1..Len(final_df) - 1 :
            \/ FGt(final_df[j].FinalValue, final_df[j + 1].FinalValue)
            \/ /\ final_df[j].FinalValue = final_df[j + 1].FinalValue
               /\ LexLess(ParamValues(final_df[j]), ParamValues(final_df[j + 1]))

\* the rows of the combinations whose evaluation yields one
ExpectedRows == {e \in {Expected(t) : t \in Tasks} : e.kind = "row"}

\* C5 (amended): for a fixed strategy, parameter ranges and price series
\* every interleaving and completion order of the tasks yields the same
\* rows, each once; their order in the result is the completion order, which
\* is not fixed, and rows of equal final value are in no particular order.
C5_SameRows ==
    Returned => \A rows \in {ExpectedRows} :
                    /\ {final_df[j] : j \in 1..Len(final_df)} = rows
                    /\ Len(final_df) = Cardinality(rows)

\* C5 witness: two rows of one final value returned against the
\* lexicographic order of their parameters
C5_Witness ==
    /\ Returned
    /\ Len(final_df) >= 2
    /\ final_df[1].FinalValue = final_df[2].FinalValue
    /\ LexLess(ParamValues(final_df[2]), ParamValues(final_df[1]))

\* C6: a combination whose constructor, generate_signals or
\* simulate_trading raises is alone left out of the result,
\* run_optimization does not raise, and every other combination is
\* evaluated and, when it yields a row, included.
C6_TaskIsolation ==
    /\ opt_pc # "raised"
    /\ Returned => \A t \in Tasks : futures[t].state = "collected"
    /\ \A t \in Tasks :
          futures[t].state \in {"finished", "collected"} =>
              \A e \in {Expected(t)} :
                  /\ e.kind = "raises" =>
                        /\ futures[t].result.kind = "none" /\ t \in logged
                        /\ Returned => \A j \in 1..Len(final_df) :
                                           final_df[j].params # all_combinations[t]
                  /\ e.kind = "row" =>
                        /\ futures[t].result = e
                        /\ Returned => \E j \in 1..Len(final_df) : final_df[j] = e

\* C6 witness: a run has returned in which one combination raised and
\* another is in the result
C6_Witness ==
    /\ Returned
    /\ \E t, u \in Tasks :
          /\ Expected(t).kind = "raises" /\ t \in logged
          /\ Expected(u).kind = "row"
          /\ \E j \in 1..Len(final_df) : final_df[j].params = all_combinations[u]

\* a combination fails the validity predicate
FailsValidity(combo) ==
    \/ ( /\ "short_window" \in DOMAIN combo /\ "long_window" \in DOMAIN combo
         /\ combo["short_window"] >= combo["long_window"] )
    \/ ( /\ "oversold_threshold" \in DOMAIN combo
         /\ "overbought_threshold" \in DOMAIN combo
         /\ combo["oversold_threshold"] >= combo["overbought_threshold"] )

\* C7: a combination with short_window >= long_window or
\* oversold_threshold >= overbought_threshold is discarded without its
\* strategy being constructed, without an exception and without an error
\* being reported, and is never in the result.
C7_InvalidDiscarded ==
    \A t \in Tasks :
        FailsValidity(all_combinations[t]) =>
            /\ t \notin constructed
            /\ t \notin logged
            /\ futures[t].state \in {"pending", "finished", "collected"}
            /\ futures[t].state # "pending" => futures[t].result.kind = "none"
            /\ \A j \in 1..Len(results) : results[j].params # all_combinations[t]
            /\ Returned =>
                  \A j \in 1..Len(final_df) : final_df[j].params # all_combinations[t]

\* C7 witness: a run has returned that discarded a combination with
\* short_window >= long_window and kept another
C7_Witness ==
    /\ Returned
    /\ Len(final_df) >= 1
    /\ \E t \in Tasks :
          /\ "short_window" \in DOMAIN all_combinations[t]
          /\ "long_window" \in DOMAIN all_combinations[t]
          /\ all_combinations[t]["short_window"] >= all_combinations[t]["long_window"]
          /\ futures[t].state = "collected"

\* the k raw combinations, the v structurally invalid ones among them
RawCount == Len(all_combinations)

InvalidCount == Cardinality({t \in Tasks : FailsValidity(all_combinations[t])})

\* C8: the result holds exactly one row for each combination that is valid
\* and was evaluated without an exception, and no other row, so
\* len(result) <= k - v; when every combination is invalid or fails the
\* result is empty (and returned, not an error).
C8_ExactlyOneRowEach ==
    /\ opt_pc # "raised"
    /\ Returned =>
          \A rows \in {ExpectedRows} :
              /\ \A e \in rows :
                    Cardinality({j \in 1..Len(final_df) : final_df[j].params = e.params}) = 1
              /\ \A j \in 1..Len(final_df) : final_df[j] \in rows
              /\ Len(final_df) <= RawCount - InvalidCount
              /\ rows = {} => final_df = <<>>

\* C8 witness: of four combinations one is invalid and three are in the
\* result
C8_Witness ==
    /\ Returned
    /\ RawCount = 4
    /\ InvalidCount = 1
    /\ Len(final_df) = 3

\* C9: run_optimization returns only after every submitted evaluation has
\* completed, and (every evaluation terminating, the threads being
\* scheduled) it eventually returns.
C9_JoinThenReturn ==
    /\ [](Returned => \A t \in Tasks : futures[t].state = "collected")
    /\ (opt_pc = "init") ~> Returned

\* C9 witness: a run of four evaluations has returned
C9_Witness ==
    /\ Returned
    /\ RawCount = 4
    /\ \A t \in Tasks : futures[t].state = "collected"
    /\ constructed # {}

\* C10: no evaluation changes the shared price series -- at any time it is
\* the series the caller supplied -- and the outcome of a combination is the
\* one its parameters and that series determine, whichever other
\* combinations ran before or beside it.
C10_DataUnchanged ==
    /\ data = price_series
    /\ \A t \in Tasks :
          futures[t].state \in {"finished", "collected"} =>
              \A e \in {Expected(t)} :
                  \/ futures[t].result = e
                  \/ futures[t].result.kind = "none" /\ e.kind \in {"invalid", "raises"}

\* C10 witness: on a series of three prices a combination has finished
\* with a row while one submitted before it is still under way
C10_Witness ==
    /\ Len(price_series) = 3
    /\ data = price_series
    /\ \E t, u \in Tasks :
          /\ t < u
          /\ futures[u].state = "finished" /\ futures[u].result.kind = "row"
          /\ futures[t].state = "generated"

(***************************************************************************)
(* Claims about the signal generators, checked under StratSpec.            *)
(***************************************************************************)
\* generate_signals has returned the frame signals_df
Generated(class) == strat_class = class /\ strat_pc = "generated"

\* the 'signal' column of a frame
SignalColumn(frame) == [j \in 1..Len(frame) |-> frame[j].signal]

\* the sum of the 'signal' column of a frame
SignalSum(frame) == SumSeq(SignalColumn(frame), 1, Len(frame))

\* C11: for every (non-empty) price series the frame that
\* BuyAndHold.generate_signals returns has signal +1 in its first row and 0
\* in every other row, so that the signals sum to exactly +1.
C11_FirstDayBuy ==
    (strat_class = "BuyAndHold" /\ strat_pc \in {"generated", "raised_generate"}
        /\ Len(price_history) > 0)
    => /\ strat_pc = "generated"
       /\ \A j \in 1..Len(signals_df) : signals_df[j].signal = IF j = 1 THEN 1 ELSE 0
       /\ SignalSum(signals_df) = 1

\* the boolean crossover state of the strategy at row j (1-based) of the
\* price series: short moving average above the long one, and 0 at the
\* indices below short_window
CrossoverState(j) ==
    IF j - 1 < strategy_obj.short_window THEN 0
    ELSE IF FGt(RollingMean(price_history, strategy_obj.short_window, 1, j),
                RollingMean(price_history, strategy_obj.long_window, 1, j))
    THEN 1 ELSE 0

\* the sum of the signals of the rows 1 .. j of a frame
PrefixSum(frame, j) == SumSeq(SignalColumn(frame), 1, j)

\* C12: for a MovingAverageCrossover the signals emitted up to any row sum
\* to the boolean crossover state at that row (the initial state being 0),
\* and so the sum of all signals is the final state (0 for an empty series).
C12_CumulativeSignal ==
    Generated("MovingAverageCrossover")
    => /\ \A j \in 1..Len(signals_df) : PrefixSum(signals_df, j) = CrossoverState(j)
       /\ SignalSum(signals_df)
            = IF Len(signals_df) = 0 THEN 0 ELSE CrossoverState(Len(signals_df))

\* a series on which the averages cross upwards and later downwards
C12_Witness ==
    /\ Generated("MovingAverageCrossover")
    /\ \E j, k \in 1..Len(signals_df) :
          j < k /\ signals_df[j].signal = 1 /\ signals_df[k].signal = -1

\* C13: the state of a MovingAverageCrossover is 0 at every index below
\* short_window; a step from state 0 to state 1 emits +1, a step from 1 to 0
\* emits -1, and every other step, index 0 included, emits 0.
C13_EdgeSignals ==
    Generated("MovingAverageCrossover")
    => \A j \in 1..Len(signals_df) :
          /\ j - 1 < strategy_obj.short_window => MACState(strategy_obj, price_history, j) = 0
          /\ signals_df[j].signal =
                IF j = 1 THEN 0
                ELSE IF CrossoverState(j - 1) = 0 /\ CrossoverState(j) = 1 THEN 1
                ELSE IF CrossoverState(j - 1) = 1 /\ CrossoverState(j) = 0 THEN -1
                ELSE 0

\* a series of full length with a rising edge and then a falling edge
C13_Witness ==
    /\ Generated("MovingAverageCrossover")
    /\ Len(signals_df) = MaxLen
    /\ signals_df[2].signal = 1
    /\ signals_df[3].signal = -1
    /\ strategy_obj.short_window = 1

\* the constructor has been called with arguments of this class
Instantiated(class) == strat_class = class /\ strat_pc # "new"

\* the constructor call raised an exception of class exc, before any data
\* was seen: no strategy object, no signal frame
RejectedWith(exc) ==
    /\ strat_pc = "raised_init"
    /\ strat_exc = exc
    /\ strategy_obj.raised
    /\ signals_df = <<>>

\* C14 as stated: a MovingAverageCrossover with short_window >= long_window
\* is rejected at construction with a ConfigurationError.
C14_Original ==
    (Instantiated("MovingAverageCrossover")
        /\ params["short_window"] >= params["long_window"])
    => RejectedWith("ConfigurationError")

\* C14: a MovingAverageCrossover with short_window >= long_window is
\* rejected at construction, before any data is processed, with a
\* ValueError; no strategy object with coerced windows comes to exist.
C14_RejectedAtConstruction ==
    (Instantiated("MovingAverageCrossover")
        /\ params["short_window"] >= params["long_window"])
    => RejectedWith("ValueError")

\* the constructor was called with short_window > long_window and raised
C14_Witness ==
    /\ Instantiated("MovingAverageCrossover")
    /\ params["short_window"] > params["long_window"]
    /\ strat_pc = "raised_init"

\* the window or period among the arguments is zero or negative
BadWindow ==
    \E n \in DOMAIN params \cap {"short_window", "long_window", "rsi_period", "window"} :
        params[n] <= 0

\* C15: every strategy variant rejects a zero or negative window or period
\* at construction -- the constructor raises its configuration error and
\* no strategy object is made -- and never later, in generate_signals.
C15_RejectedAtConstruction ==
    (strat_class \in {"MovingAverageCrossover", "RSIStrategy", "BollingerBandsStrategy"}
        /\ strat_pc # "new" /\ BadWindow)
    => strat_pc = "raised_init"

\* C16: an RSIStrategy whose period is at least the length of the series
\* (equal to it included) returns, without raising, a frame whose signal is
\* 0 in every row.
C16_ShortSeriesAllZero ==
    (strat_class = "RSIStrategy" /\ strat_pc \in {"generated", "raised_generate"}
        /\ params["rsi_period"] >= 1
        /\ params["rsi_period"] >= Len(price_history))
    => /\ strat_pc = "generated"
       /\ \A j \in 1..Len(signals_df) : signals_df[j].signal = 0

\* the rolling means of the gains and of the losses at row j of the series
RollingGain(j) ==
    RollingMean(Gains(price_history), strategy_obj.rsi_period, strategy_obj.rsi_period, j)

RollingLoss(j) ==
    RollingMean(Losses(price_history), strategy_obj.rsi_period, strategy_obj.rsi_period, j)

\* row j has a full window whose rolling loss is 0 and rolling gain positive
OnlyGains(j) ==
    /\ strategy_obj.rsi_period >= 1
    /\ j >= strategy_obj.rsi_period
    /\ RollingLoss(j) = FZero
    /\ FGt(RollingGain(j), FZero)

\* C17: at a row with a full window, rolling loss 0 and rolling gain > 0,
\* the RSI is exactly 100 (not nan, no division error), and the signal of
\* the row is -1 when overbought_threshold < 100.
C17_RsiHundred ==
    Generated("RSIStrategy")
    => \A j \in 1..Len(signals_df) :
          OnlyGains(j)
          => /\ RSIValue(strategy_obj, price_history, j) = FromInt(100)
             /\ strategy_obj.overbought_threshold < 100 => signals_df[j].signal = -1

\* a row of only gains, overbought_threshold below 100, and its signal -1
C17_Witness ==
    /\ Generated("RSIStrategy")
    /\ strategy_obj.overbought_threshold < 100
    /\ \E j \in 1..Len(signals_df) : OnlyGains(j) /\ signals_df[j].signal = -1

\* the RSI of row j is undefined: fewer than rsi_period observations, or a
\* full window with rolling gain = rolling loss = 0 (0 / 0)
RsiUndefined(j) ==
    \/ strategy_obj.rsi_period < 1
    \/ j < strategy_obj.rsi_period
    \/ (RollingGain(j) = FZero /\ RollingLoss(j) = FZero)

C19_AlignedSignals ==
    strat_pc = "generated"
    => /\ Len(signals_df) = Len(price_history)
       /\ \A j \in 1..Len(signals_df) :
             /\ signals_df[j].price = price_history[j]
             /\ signals_df[j].signal \in {-1, 0, 1}

\* a Bollinger frame of full length with an incomplete window in its first
\* row and a non-zero signal later
C19_Witness ==
    /\ Generated("BollingerBandsStrategy")
    /\ strategy_obj.window > 1
    /\ Len(signals_df) = MaxLen
    /\ \E j \in 1..Len(signals_df) : signals_df[j].signal # 0

(***************************************************************************)
(* A claim about the errors of simulate_trading, checked under SimSpec.    *)
(***************************************************************************)
\* C20: simulate_trading called with an empty signal series fails with an
\* InsufficientDataError: it returns no metrics and raises no exception of
\* another class.
C20_EmptyInsufficientData ==
    (signals = <<>> /\ sim_pc \in {"returned", "raised"})
    => /\ sim_pc = "raised"
       /\ sim_exc = "InsufficientDataError"
       /\ performance_metrics = NoMetrics

(***************************************************************************)
(* Claims about a strategy's signals fed to simulate_trading, checked      *)
(* under StratSpec.                                                        *)
(***************************************************************************)
\* simulate_trading has returned the metrics of the signals of this class
Simulated(class) == strat_class = class /\ sim_pc = "returned"

\* C21: BuyAndHold signals fed to simulate_trading with initial cash C over
\* the prices p buy C / p[0] units at step 0 and never trade again: the
\* total of every step i is (C / p[0]) * p[i], the final value is
\* (C / p[0]) * p[n-1] and total_return is final / C - 1; prices
\* [10, 11, 12, 11, 10] with C = 10000 give 1000 units, final value 10000
\* and total_return 0.
C21_BuyAndHoldValue ==
    Simulated("BuyAndHold")
    => \A units \in {FDiv(FromInt(initial_investment), FromInt(price_history[1]))} :
          /\ \A j \in 1..Len(portfolio) :
                /\ portfolio[j].holdings = FMul(units, FromInt(price_history[j]))
                /\ portfolio[j].total = FMul(units, FromInt(price_history[j]))
          /\ positions = units
          /\ performance_metrics.FinalValue
                = FMul(units, FromInt(price_history[Len(price_history)]))
          /\ performance_metrics.TotalReturn
                = FSub(FDiv(performance_metrics.FinalValue, FromInt(initial_investment)),
                       FromInt(1))
          /\ (price_history = ScenarioPrices /\ initial_investment = 10000)
             => /\ units = FromInt(1000)
                /\ performance_metrics.FinalValue = FromInt(10000)
                /\ performance_metrics.TotalReturn = FZero


(***************************************************************************)
(* Claims about the batch driver, checked under BatchSpec.                 *)
(***************************************************************************)

\* the rows of the table under the key (ticker, strategy_name)
RowsOfKey(rows, ticker, strategy_name) ==
    {r \in rows : r.ticker = ticker /\ r.strategy_name = strategy_name}

\* process p executes its write in this step
Writes(p) == procs[p].pc = "write" /\ procs'[p].pc # "write"

\* C23: when a process writes the result of a non-empty optimization of
\* (ticker, strategy), the table afterwards holds exactly one row under that
\* key; its parameters are those of a result row whose Final Value no other
\* result row exceeds, its last_updated is the time of the write, and the
\* rows under every other key are the same as before the write.
C23_UpsertBestParams ==
    [][\A p \in Processes :
          Writes(p) =>
             LET ticker == tickers[p]
                 strategy_name == BatchStrategyNames[procs[p].k]
                 written == RowsOfKey(db_rows', ticker, strategy_name)
             IN  /\ procs[p].results_df # {}
                 /\ Cardinality(written) = 1
                 /\ \A r \in written :
                       /\ r.last_updated = clock
                       /\ \E b \in procs[p].results_df :
                             /\ \A q \in procs[p].results_df :
                                   FGe(b.FinalValue, q.FinalValue)
                             /\ r.parameters = b.params
                 /\ db_rows' \ written = db_rows \ RowsOfKey(db_rows, ticker, strategy_name)
      ]_vars

\* C23 witness: two processes have written the row of one key, one after the
\* other, the row holds parameters of the optimization, and an older row of
\* another key is still in the table.
C23_Witness ==
    /\ \E v \in db_writes, w \in db_writes :
          /\ v[1] # w[1] /\ v[2] = w[2] /\ tickers[v[1]] = tickers[w[1]]
          /\ \E r \in RowsOfKey(db_rows, tickers[w[1]], BatchStrategyNames[w[2]]) :
                /\ r.last_updated >= OPTIMIZATION_TIME_DELTA_HOURS
                /\ r.strategy_name = "Moving Average Crossover"
                /\ r.parameters["short_window"] = 2
    /\ \E r \in db_rows : r.last_updated < OPTIMIZATION_TIME_DELTA_HOURS


\* process p executes the freshness check of its current strategy in this step
Checks(p) == procs[p].pc = "check" /\ procs'[p] # procs[p]

\* C24: at the freshness check of a (ticker, strategy) pair whose stored
\* last_updated is less than 24 hours before now, the Optimizer is not run,
\* nothing is written and the table stays as it is; for a pair with no stored
\* row, or one of an age of 24 hours or more, the Optimizer is run.  The
\* Optimizer is run at no other step, and a row is written only for a pair
\* whose Optimizer was run.
C24_FreshnessPolicy ==
    [][/\ \A p \in Processes :
             Checks(p) =>
                LET pair == <<p, procs[p].k>>
                    stored == RowsOfKey(db_rows, tickers[p], BatchStrategyNames[procs[p].k])
                IN  IF \E r \in stored : clock - r.last_updated < 24
                    THEN /\ pair \notin optimizer_runs'
                         /\ optimizer_runs' = optimizer_runs
                         /\ db_rows' = db_rows
                         /\ db_writes' = db_writes
                         /\ procs'[p].pc # "write"
                    ELSE pair \in optimizer_runs'
       /\ optimizer_runs' \ optimizer_runs \subseteq
             {<<p, procs[p].k>> : p \in {q \in Processes : Checks(q)}}
       /\ db_writes' \subseteq optimizer_runs'
      ]_vars

\* C24 witness: at hour 24 a process has gone through its three strategies:
\* the first, whose row is exactly 24 hours old, and the third, which has no
\* row, were optimized, and the second, whose row is 23 hours old, was not,
\* and its row is as it was.
C24_Witness ==
    /\ clock = 24
    /\ \E p \in Processes :
          /\ procs[p].k = 4
          /\ <<p, 1>> \in optimizer_runs
          /\ <<p, 2>> \notin optimizer_runs
          /\ <<p, 3>> \in optimizer_runs
          /\ \E r \in RowsOfKey(db_rows, tickers[p], "Moving Average Crossover") :
                r.last_updated = 0
          /\ \E r \in RowsOfKey(db_rows, tickers[p], "RSI Strategy") :
                r.last_updated = 1 /\ r.parameters["rsi_period"] = 9


\* the price provider returned an empty series to process p
EmptyFetched(p) == procs[p].pc # "queued" /\ procs[p].historical_data = <<>>

\* C25: a process whose ticker got an empty price series has returned
\* "Failed to fetch data" without running any Optimizer and without writing
\* any row, and once there is such a process the batch still completes, with
\* every other process having gone through all its strategies and returned
\* "Successfully processed".
C25_EmptyDataAbortsTickerOnly ==
    /\ [](\A p \in Processes :
             EmptyFetched(p) =>
                /\ procs[p].pc \in {"done", "collected"}
                /\ procs[p].result = "Failed to fetch data"
                /\ \A k \in 1..Len(BatchStrategyNames) :
                      <<p, k>> \notin optimizer_runs /\ <<p, k>> \notin db_writes)
    /\ (\E p \in Processes : EmptyFetched(p))
          ~> ( /\ batch_pc = "complete"
               /\ \A q \in Processes :
                     ~EmptyFetched(q) =>
                        /\ procs[q].result = "Successfully processed"
                        /\ procs[q].k = Len(BatchStrategyNames) + 1 )

\* C25 witness: the batch is complete; one ticker got an empty series and
\* its process failed, the process of the other ticker was successful and
\* wrote a row.
C25_Witness ==
    /\ batch_pc = "complete"
    /\ \E p \in Processes, q \in Processes :
          /\ tickers[p] # tickers[q]
          /\ EmptyFetched(p)
          /\ procs[p].result = "Failed to fetch data"
          /\ procs[q].result = "Successfully processed"
          /\ \E k \in 1..Len(BatchStrategyNames) : <<q, k>> \in db_writes


(***************************************************************************)
(* Claims about the live tracker, checked under LiveSpec.                  *)
(***************************************************************************)

\* thread t has returned from optimize_single_strategy
Finished(t) == threads[t].pc \in {"saved", "returned"}

\* C22: when the optimization threads, one per strategy, have all finished,
\* the parameter file holds the key of every thread that saved: no thread's
\* entry was lost to another thread's stale copy.
C22_NoLostUpdate ==
    ( /\ Len(threads) = Len(LiveStrategyNames)
      /\ \A t \in DOMAIN threads : Finished(t) )
    => \A t \in DOMAIN threads :
          threads[t].pc = "saved"
             => ParamsKey(threads[t].ticker, threads[t].name) \in DOMAIN params_file

\* C26: at any time at most one optimization thread per strategy name is
\* alive.
C26_AtMostOneAlive ==
    \A name \in {LiveStrategyNames[k] : k \in DOMAIN LiveStrategyNames} :
       Cardinality({t \in DOMAIN threads :
                       threads[t].name = name /\ IsAlive(threads[t])}) <= 1

=============================================================================
